---- MODULE Spec2Model ----
(***************************************************************************)
(* A model of the enhanced cc-sdd workflow engine:                         *)
(*   - the todo rule engine (TodoEnhancer),                                *)
(*   - the workflow orchestrator (CoreWorkflowEnhancer),                   *)
(*   - the FDD phase chain and commands (FDDWorkflowManager,               *)
(*     FDDCommandIntegration),                                             *)
(*   - the FDD project state machine (FddWorkflowManager).                 *)
(* A JavaScript string is modelled as the sequence of its characters, each *)
(* a one-character string; a character outside ASCII is written "uXXXX"    *)
(* after its code point.                                                   *)
(***************************************************************************)
EXTENDS Integers, Sequences, FiniteSets, TLC

VARIABLES
  \* ---- todo rule engine ----
  todoOptions,     \* TodoEnhancer.options after the constructor's merge
  todoInput,       \* the list the caller first passed to enhanceTodos
  todoList,        \* the list most recently returned to the caller
  todoPrev,        \* the list passed to the most recent enhanceTodos call
  todoCalls,       \* number of enhanceTodos calls applied so far
  todoValidation,  \* result of validateTodos on todoList, or NoValidation
  todoArgument,    \* the array the caller passed to the latest call, after the call
  todoCli          \* the EnhancedCliOptions an enhanceTodoList caller passes

VARIABLES
  \* ---- persisted coordination documents ----
  docs,            \* the files written so far: a set of [path, content], one per path
  now              \* the clock, in minutes (the unit of generateTimestamp)

VARIABLES
  \* ---- workflow orchestrator: one enhanceSpecWorkflow call ----
  wfPc,            \* position in enhanceSpecWorkflow
  wfContext,       \* the WorkflowContext passed by the caller
  wfResult,        \* what originalWorkflow() resolved to
  wfCaught,        \* the error caught by the catch clause
  wfGit,           \* what autoGitCommit did
  wfOutcome,       \* what the caller of enhanceSpecWorkflow observes
  wfLog            \* the steps taken, in order

VARIABLES
  \* ---- FDD workflow manager (FDDWorkflowManager) ----
  fddConfig,       \* FDDWorkflowManager.config
  fddChain,        \* the chain the latest generateFDDWorkflow call returned
  fddResult        \* what the caller's executeFDDPhase call returned or threw

VARIABLES
  \* ---- FDD commands: one processFDDCommand call ----
  cmdPc,           \* position in processFDDCommand
  cmdCommand,      \* the command passed by the caller
  cmdOptions,      \* the FDDCommandOptions passed by the caller
  cmdSteps,        \* the steps of the command still to run
  cmdTodos,        \* the local todos collected so far
  cmdPhases,       \* what each executeFDDPhase call made so far came to
  cmdResult        \* what the caller of processFDDCommand observes

VARIABLES
  \* ---- FDD project (FddWorkflowManager) ----
  projProject,     \* the FddProject the caller holds, or NoProject
  projPhases,      \* the phases object every copy of the project refers to
  projTrace,       \* the phases the executeFddPhase calls that returned were given
  projOutcome      \* how the latest call ended

VARIABLES
  \* ---- message builder: one createInstruction or createReport call ----
  msgKind,         \* which of the two was called, or "none"
  msgRequest,      \* the request the caller passed
  msgDocument,     \* the title line and the sections of the generated document
  msgOutcome,      \* what the caller observes: the path returned, or a throw
  \* ---- message store: successive calls ----
  msgSent,         \* the calls that returned, each with the path it wrote
  msgCount,        \* how many calls returned
  msgListing       \* the latest listing a caller read

VARIABLES
  \* ---- two phase runs side by side ----
  runs             \* per run: its context, its position and the paths it wrote

todoVars ==
  <<todoOptions, todoInput, todoList, todoPrev, todoCalls, todoValidation, todoArgument,
    todoCli>>
storeVars == <<docs, now>>
wfVars == <<wfPc, wfContext, wfResult, wfCaught, wfGit, wfOutcome, wfLog>>

fddVars == <<fddConfig, fddChain, fddResult>>
projVars == <<projProject, projPhases, projTrace, projOutcome>>
runVars == <<runs>>
msgVars == <<msgKind, msgRequest, msgDocument, msgOutcome, msgSent, msgCount, msgListing>>
cmdVars == <<cmdPc, cmdCommand, cmdOptions, cmdSteps, cmdTodos, cmdPhases, cmdResult>>

vars == <<todoVars, storeVars, wfVars, fddVars, cmdVars, projVars, msgVars, runVars>>

(***************************************************************************)
(* Bounds of the model.                                                    *)
(***************************************************************************)
\* longest todo list a caller passes in
MaxTodos == 2
\* number of successive enhanceTodos calls on the returned list
MaxEnhanceCalls == 2
\* minutes the clock may advance during a run
MaxClock == 1

\* number of executeFddPhase calls that return, on one project
MaxPhaseCalls == 3
\* number of createInstruction / createReport calls that return, on one store
MaxCalls == 2

(***************************************************************************)
(* Strings.                                                                *)
(***************************************************************************)
UpperCaseLetters ==
  <<"A","B","C","D","E","F","G","H","I","J","K","L","M","N","O","P","Q","R","S","T","U","V","W","X","Y","Z">>
LowerCaseLetters ==
  <<"a","b","c","d","e","f","g","h","i","j","k","l","m","n","o","p","q","r","s","t","u","v","w","x","y","z">>
Digits ==
  <<"0","1","2","3","4","5","6","7","8","9">>

Range(s) == {s[i] : i \in 1..Len(s)}

\* the lower-case letter of each upper-case letter
LowerOf ==
  [c \in Range(UpperCaseLetters) |->
     LowerCaseLetters[CHOOSE n \in 1..Len(UpperCaseLetters) : UpperCaseLetters[n] = c]]

\* String.prototype.toLowerCase, on the characters the program meets
toLowerCase(s) ==
  [i \in 1..Len(s) |-> IF s[i] \in DOMAIN LowerOf THEN LowerOf[s[i]] ELSE s[i]]

\* String.prototype.includes: k occurs in s as a contiguous substring
includes(s, k) ==
  \E i \in 0..(Len(s) - Len(k)) : \A j \in 1..Len(k) : s[i + j] = k[j]

(***************************************************************************)
(* Todo rule engine: TodoEnhancer.                                         *)
(***************************************************************************)
TodoStatus == {"pending", "in_progress", "completed"}

OptionKeys == {"enforceGitCommit", "detectDocumentCreation", "autoLearningCapture"}

\* the defaults of the constructor
DefaultOptions == [k \in OptionKeys |-> TRUE]

\* the options a caller may pass: any subset of the keys, each true or false
GivenOptions == UNION {[ks -> BOOLEAN] : ks \in SUBSET OptionKeys}

\* constructor: { enforceGitCommit: true, ..., ...options }
TodoEnhancer(options) ==
  [k \in OptionKeys |-> IF k \in DOMAIN options THEN options[k] ELSE DefaultOptions[k]]

documentKeywords ==
  { <<"u6307","u793A","u66F8">>, <<"i","n","s","t","r","u","c","t","i","o","n">>, <<"r","e","p","o","r","t">>, <<"u5831","u544A","u66F8">>,
    <<"u5B66","u7FD2","u8A18","u9332">>, <<"l","e","a","r","n","i","n","g">>, <<"h","a","n","d","o","f","f">>, <<"u5F15","u304D","u7D99","u304E">>,
    <<"p","a","t","t","e","r","n">>, <<"u30D1","u30BF","u30FC","u30F3">>, <<"d","e","c","i","s","i","o","n">>, <<"u8A2D","u8A08","u5224","u65AD">> }

learningTriggers ==
  { <<"i","m","p","l","e","m","e","n","t">>, <<"u5B9F","u88C5">>, <<"f","i","x">>, <<"u4FEE","u6B63">>, <<"o","p","t","i","m","i","z","e">>, <<"u6700","u9069","u5316">>,
    <<"r","e","f","a","c","t","o","r">>, <<"u30EA","u30D5","u30A1","u30AF","u30BF">>, <<"d","e","s","i","g","n">>, <<"u8A2D","u8A08">> }

\* the keyword lists validateTodos uses
validateDocKeywords ==
  { <<"u6307","u793A","u66F8">>, <<"i","n","s","t","r","u","c","t","i","o","n">>, <<"r","e","p","o","r","t">>, <<"u5831","u544A","u66F8">> }

validateWorkKeywords ==
  { <<"i","m","p","l","e","m","e","n","t">>, <<"f","i","x">>, <<"d","e","s","i","g","n">>, <<"u5B9F","u88C5">>, <<"u4FEE","u6B63">>, <<"u8A2D","u8A08">> }

\* todos.some(todo => keywords.some(k => todo.content.toLowerCase().includes(k.toLowerCase())))
someTodoIncludes(todos, keywords) ==
  \E i \in 1..Len(todos) :
     LET content == toLowerCase(todos[i].content)
     IN  \E k \in keywords : includes(content, toLowerCase(k))

GitCommitTask ==
  [content    |-> <<"G","i","t"," ","c","o","m","m","i","t"," ","d","o","c","u","m","e","n","t","a","t","i","o","n"," ","c","h","a","n","g","e","s">>,
   activeForm |-> <<"C","o","m","m","i","t","t","i","n","g"," ","d","o","c","u","m","e","n","t","a","t","i","o","n"," ","c","h","a","n","g","e","s">>,
   status     |-> "pending"]

LearningTask ==
  [content    |-> <<"C","a","p","t","u","r","e"," ","l","e","a","r","n","i","n","g"," ","i","n","s","i","g","h","t","s"," ","a","n","d"," ","p","a","t","t","e","r","n","s">>,
   activeForm |-> <<"C","a","p","t","u","r","i","n","g"," ","l","e","a","r","n","i","n","g"," ","i","n","s","i","g","h","t","s"," ","a","n","d"," ","p","a","t","t","e","r","n","s">>,
   status     |-> "pending"]

\* splice(index, 1, item): the item at index is replaced
spliceOver(todos, index, item) ==
  SubSeq(todos, 1, index) \o <<item>> \o SubSeq(todos, index + 2, Len(todos))

\* Array.prototype.splice(index, 0, item) with a 0-based index
splice(todos, index, item) ==
  SubSeq(todos, 1, index) \o <<item>> \o SubSeq(todos, index + 1, Len(todos))

\* Array.prototype.findIndex of the first item containing "git commit"; -1 if none
findGitCommitIndex(todos) ==
  LET hits == {i \in 1..Len(todos) :
                 includes(toLowerCase(todos[i].content), <<"g","i","t"," ","c","o","m","m","i","t">>)}
  IN  IF hits = {} THEN -1
      ELSE (CHOOSE i \in hits : \A j \in hits : i <= j) - 1

\* the commit item put first instead of last
addGitCommitRuleUnshift(todos) ==
  LET hasDocumentCreation == someTodoIncludes(todos, documentKeywords)
      hasGitCommit == someTodoIncludes(todos, { <<"g","i","t"," ","c","o","m","m","i","t">>, <<"c","o","m","m","i","t">> })
  IN  IF hasDocumentCreation /\ ~hasGitCommit
      THEN <<GitCommitTask>> \o todos
      ELSE todos

addGitCommitRule(todos) ==
  LET hasDocumentCreation == someTodoIncludes(todos, documentKeywords)
      hasGitCommit == someTodoIncludes(todos, { <<"g","i","t"," ","c","o","m","m","i","t">>, <<"c","o","m","m","i","t">> })
  IN  IF hasDocumentCreation /\ ~hasGitCommit
      THEN Append(todos, GitCommitTask)
      ELSE todos

\* the learning item always pushed at the end
addLearningCapturePush(todos) ==
  LET hasLearningOpportunity == someTodoIncludes(todos, learningTriggers)
      hasLearningTask == someTodoIncludes(todos, { <<"l","e","a","r","n","i","n","g">>, <<"u5B66","u7FD2">> })
  IN  IF hasLearningOpportunity /\ ~hasLearningTask
      THEN Append(todos, LearningTask)
      ELSE todos

addLearningCapture(todos) ==
  LET hasLearningOpportunity == someTodoIncludes(todos, learningTriggers)
      hasLearningTask == someTodoIncludes(todos, { <<"l","e","a","r","n","i","n","g">>, <<"u5B66","u7FD2">> })
      insertIndex == findGitCommitIndex(todos)
  IN  IF hasLearningOpportunity /\ ~hasLearningTask
      THEN IF insertIndex > -1
           THEN splice(todos, insertIndex, LearningTask)
           ELSE Append(todos, LearningTask)
      ELSE todos

enhanceTodos(todos, options) ==
  LET afterCommit ==
        IF options.enforceGitCommit /\ options.detectDocumentCreation
        THEN addGitCommitRule(todos) ELSE todos
  IN  IF options.autoLearningCapture
      THEN addLearningCapture(afterCommit) ELSE afterCommit

validateTodos(todos, options) ==
  LET hasDocCreation == someTodoIncludes(todos, validateDocKeywords)
      hasGitCommit == someTodoIncludes(todos, { <<"g","i","t"," ","c","o","m","m","i","t">> })
      hasSignificantWork == someTodoIncludes(todos, validateWorkKeywords)
      hasLearningCapture == someTodoIncludes(todos, { <<"l","e","a","r","n","i","n","g">>, <<"u5B66","u7FD2">> })
      v1 == IF options.enforceGitCommit /\ hasDocCreation /\ ~hasGitCommit
            THEN <<"Document creation tasks must include git commit task">>
            ELSE <<>>
      v2 == IF options.autoLearningCapture /\ hasSignificantWork /\ ~hasLearningCapture
            THEN <<"Significant work should include learning capture task">>
            ELSE <<>>
      violations == v1 \o v2
  IN  [checked |-> TRUE, valid |-> (Len(violations) = 0), violations |-> violations]

\* the todo items callers pass in: the spec's examples, the two rule items, and
\* one item for each way a keyword can match or miss
TodoItems ==
  { [content |-> <<"C","r","e","a","t","e"," ","i","n","s","t","r","u","c","t","i","o","n"," ","d","o","c">>, activeForm |-> <<"C","r","e","a","t","i","n","g"," ","i","n","s","t","r","u","c","t","i","o","n"," ","d","o","c">>, status |-> "pending"],
    [content |-> <<"I","m","p","l","e","m","e","n","t"," ","f","e","a","t","u","r","e"," ","X">>, activeForm |-> <<"I","m","p","l","e","m","e","n","t","i","n","g"," ","f","e","a","t","u","r","e"," ","X">>, status |-> "in_progress"],
    [content |-> <<"C","o","m","m","i","t"," ","c","h","a","n","g","e","s">>, activeForm |-> <<"C","o","m","m","i","t","t","i","n","g"," ","c","h","a","n","g","e","s">>, status |-> "pending"],
    [content |-> <<"W","r","i","t","e"," ","t","e","s","t","s">>, activeForm |-> <<"W","r","i","t","i","n","g"," ","t","e","s","t","s">>, status |-> "completed"],
    [content |-> <<"O","p","t","i","m","i","z","e"," ","q","u","e","r","i","e","s">>, activeForm |-> <<"O","p","t","i","m","i","z","i","n","g"," ","q","u","e","r","i","e","s">>, status |-> "pending"],
    [content |-> <<"R","e","c","o","r","d"," ","d","e","c","i","s","i","o","n">>, activeForm |-> <<"R","e","c","o","r","d","i","n","g"," ","d","e","c","i","s","i","o","n">>, status |-> "pending"],
    [content |-> <<"u5B66","u7FD2","u30E1","u30E2">>, activeForm |-> <<"u5B66","u7FD2","u30E1","u30E2","u4F5C","u6210">>, status |-> "pending"],
    GitCommitTask,
    LearningTask }

TodoLists == UNION {[1..n -> TodoItems] : n \in 0..MaxTodos}

\* no validateTodos call has been made on the list the caller holds
NoValidation == [checked |-> FALSE, valid |-> FALSE, violations |-> <<>>]

\* enhancedTodos = todos: the rules push into the caller's own array
enhancedTodosAliased(todos) == todos

\* let enhancedTodos = [...todos]: the array the rules push into is a new one
enhancedTodosArray(todos) == "enhancedTodos"

\* enhanceTodos(todos) over the arrays it touches: the caller's array is named
\* "todos"; the result tells which array is returned and what each holds
enhanceTodosArrays(todos, options) ==
  LET enhancedTodos == enhancedTodosArray("todos")
      arrays == [a \in {"todos", enhancedTodos} |-> todos]
  IN  [returned |-> enhancedTodos,
       arrays |-> [arrays EXCEPT ![enhancedTodos] = enhanceTodos(todos, options)]]

\* an optional boolean of EnhancedCliOptions: set to true or false, or left out
OptionalBoolean == {"true", "false", "undefined"}

\* the options an enhanceTodoList caller may pass (its other keys are not read)
EnhancedCliOptions ==
  [enableGitCommitRule : OptionalBoolean, autoLearningCapture : OptionalBoolean]

\* enhanceTodoList has not been called
NoCliOptions == [enableGitCommitRule |-> "none", autoLearningCapture |-> "none"]

\* the exported enhanceTodoList(todos, options)
enhanceTodoList(todos, options) ==
  IF options.enableGitCommitRule # "true"
  THEN todos
  ELSE enhanceTodos(todos,
         TodoEnhancer([enforceGitCommit |-> TRUE, detectDocumentCreation |-> TRUE,
                       autoLearningCapture |->
                         IF options.autoLearningCapture = "undefined" THEN TRUE
                         ELSE options.autoLearningCapture = "true"]))

TodoStart ==
  /\ todoOptions \in {TodoEnhancer(o) : o \in GivenOptions}
  /\ todoInput \in TodoLists
  /\ todoList = todoInput
  /\ todoPrev = <<>>
  /\ todoCalls = 0
  /\ todoValidation = NoValidation
  /\ todoArgument = <<>>
  /\ todoCli = NoCliOptions

\* the caller passes the list it holds to enhanceTodos and keeps the result
EnhanceTodos ==
  /\ todoCalls < MaxEnhanceCalls
  /\ todoPrev' = todoList
  /\ LET r == enhanceTodosArrays(todoList, todoOptions)
     IN  /\ todoList' = r.arrays[r.returned]
         /\ todoArgument' = r.arrays["todos"]
  /\ todoCalls' = todoCalls + 1
  /\ todoValidation' = NoValidation
  /\ UNCHANGED <<todoOptions, todoInput, todoCli>>
  /\ UNCHANGED <<storeVars, wfVars, fddVars, cmdVars, projVars, msgVars, runVars>>

\* a caller of the exported function: it holds a list and its CLI options
TodoListStart ==
  /\ todoOptions = DefaultOptions
  /\ todoInput \in TodoLists
  /\ todoList = todoInput
  /\ todoPrev = <<>>
  /\ todoCalls = 0
  /\ todoValidation = NoValidation
  /\ todoArgument = <<>>
  /\ todoCli \in EnhancedCliOptions

\* the caller passes the list it holds to enhanceTodoList and keeps the result
EnhanceTodoList ==
  /\ todoCalls < MaxEnhanceCalls
  /\ todoPrev' = todoList
  /\ todoList' = enhanceTodoList(todoList, todoCli)
  /\ todoArgument' = todoList
  /\ todoCalls' = todoCalls + 1
  /\ UNCHANGED <<todoOptions, todoInput, todoValidation, todoCli>>
  /\ UNCHANGED <<storeVars, wfVars, fddVars, cmdVars, projVars, msgVars, runVars>>

\* the caller validates the list it holds; validateTodos only reads todos
\* (some) and pushes to its own violations array
ValidateTodos ==
  /\ todoValidation' = validateTodos(todoList, todoOptions)
  /\ todoArgument' = todoList
  /\ UNCHANGED <<todoOptions, todoInput, todoList, todoPrev, todoCalls, todoCli>>
  /\ UNCHANGED <<storeVars, wfVars, fddVars, cmdVars, projVars, msgVars, runVars>>

(***************************************************************************)
(* Coordination message builder: InstructionManager and ReportManager.     *)
(***************************************************************************)
Roles == {"claude", "gemini", "codex"}

\* a value a generator returns for "no document for this phase"
Null == [from |-> "null", to |-> "null", task |-> <<>>]

Whitespace == {" ", "\t", "\n", "u00A0", "u3000"}

\* the 30 of substring(0, 30)
MaxSlugLength == 30

\* s.replace(/[^a-z0-9\s]/g, '')
stripNonAlnum(s) ==
  SelectSeq(s, LAMBDA c : c \in Range(LowerCaseLetters) \cup Range(Digits) \cup Whitespace)

RECURSIVE skipWhitespace(_)
skipWhitespace(s) ==
  IF s # <<>> /\ Head(s) \in Whitespace THEN skipWhitespace(Tail(s)) ELSE s

\* s.replace(/\s/g, '_'): every whitespace character becomes its own "_"
collapseEachWhitespace(s) ==
  [i \in 1..Len(s) |-> IF s[i] \in Whitespace THEN "_" ELSE s[i]]

\* s.replace(/\s+/g, '_'): every maximal run of whitespace becomes one "_"
RECURSIVE collapseWhitespace(_)
collapseWhitespace(s) ==
  IF s = <<>> THEN <<>>
  ELSE IF Head(s) \in Whitespace
       THEN <<"_">> \o collapseWhitespace(skipWhitespace(s))
       ELSE <<Head(s)>> \o collapseWhitespace(Tail(s))

\* s.substring(0, end)
substring(s, end) == SubSeq(s, 1, IF Len(s) < end THEN Len(s) ELSE end)

\* InstructionManager.sanitizeTaskName
sanitizeTaskName(task) ==
  substring(collapseWhitespace(stripNonAlnum(toLowerCase(task))), MaxSlugLength)

\* ReportManager.sanitizeTaskName
reportSanitizeTaskName(task) ==
  substring(collapseWhitespace(stripNonAlnum(toLowerCase(task))), MaxSlugLength)

\* str.charAt(0).toUpperCase() + str.slice(1), on the role names
capitalize(str) ==
  CASE str = "claude" -> "Claude"
    [] str = "gemini" -> "Gemini"
    [] str = "codex"  -> "Codex"
    [] OTHER -> str

\* generateTimestamp: the clock read to the minute (YYYYMMDDHHmm)
generateTimestamp == now

\* docs/instructions/To<To>/<from>_to_<to>_<timestamp>_<slug>.md
instructionPath(request, timestamp) ==
  <<"docs", "instructions", <<"To", capitalize(request.to)>>,
    <<request.from, "_to_", request.to, "_", timestamp, "_",
      sanitizeTaskName(request.task), ".md">> >>

\* docs/reports/From<From>/<from>_from_<status>_<timestamp>_<slug>.md
reportPath(data, timestamp) ==
  <<"docs", "reports", <<"From", capitalize(data.from)>>,
    <<data.from, "_from_", data.status, "_", timestamp, "_",
      reportSanitizeTaskName(data.task), ".md">> >>

\* the title line of the generated instruction: the file name, computed again
instructionTitle(request, timestamp) ==
  <<request.from, "_to_", request.to, "_", timestamp, "_",
    sanitizeTaskName(request.task), ".md">>

\* the title line of the generated report: the file name, computed again
reportTitle(data, timestamp) ==
  <<data.from, "_from_", data.status, "_", timestamp, "_",
    reportSanitizeTaskName(data.task), ".md">>

\* the header fields of the generated instruction
generateInstructionContent(request, timestamp) ==
  [kind |-> "instruction", from |-> request.from, to |-> request.to,
   date |-> timestamp, task |-> request.task, priority |-> request.priority]

\* the header fields and item sections of the generated report
generateReportContent(data, timestamp) ==
  [kind |-> "report", from |-> data.from, to |-> data.to, date |-> timestamp,
   task |-> data.task, status |-> data.status,
   completedItems |-> IF "completedItems" \in DOMAIN data THEN data.completedItems ELSE <<>>,
   blockedItems |-> IF "blockedItems" \in DOMAIN data THEN data.blockedItems ELSE <<>>]

\* fs.writeFile: the file at path now holds content
writeFile(files, path, content) ==
  {f \in files : f.path # path} \cup {[path |-> path, content |-> content]}

\* createInstruction when mkdir and writeFile succeed
createInstruction(files, request, timestamp) ==
  writeFile(files, instructionPath(request, timestamp),
            generateInstructionContent(request, timestamp))

\* createReport when mkdir and writeFile succeed
createReport(files, data, timestamp) ==
  writeFile(files, reportPath(data, timestamp), generateReportContent(data, timestamp))

StoreStart ==
  /\ docs = {}
  /\ now = 0

\* a minute passes
Tick ==
  /\ now < MaxClock
  /\ now' = now + 1
  /\ UNCHANGED <<docs, todoVars, wfVars, fddVars, cmdVars, projVars, msgVars, runVars>>

(***************************************************************************)
(* Workflow orchestrator: CoreWorkflowEnhancer.enhanceSpecWorkflow.        *)
(***************************************************************************)
Phases == {"requirements", "design", "tasks", "implementation", "quality"}

\* a phase name outside WorkflowContext['currentPhase']
UnknownPhases == {"deploy"}

PhaseText ==
  [requirements   |-> <<"r","e","q","u","i","r","e","m","e","n","t","s">>,
   design         |-> <<"d","e","s","i","g","n">>,
   tasks          |-> <<"t","a","s","k","s">>,
   implementation |-> <<"i","m","p","l","e","m","e","n","t","a","t","i","o","n">>,
   quality        |-> <<"q","u","a","l","i","t","y">>,
   deploy         |-> <<"d","e","p","l","o","y">>]

FeatureNames == { <<"l","o","g","i","n">>, <<"l","o","g","i","n","-","v","2">> }

WorkflowContexts ==
  [projectRoot : {"."}, currentPhase : Phases \cup UnknownPhases,
   featureName : FeatureNames, aiRole : Roles, enableFdd : BOOLEAN]

\* what originalWorkflow() may resolve to; insights stands for
\* result?.insights || result?.challenges || result?.solutions
WorkResults ==
  { [value |-> "0",  files |-> <<>>,               insights |-> FALSE],
    [value |-> "r1", files |-> <<"src/login.ts">>, insights |-> FALSE],
    [value |-> "r2", files |-> <<"src/login.ts">>, insights |-> TRUE] }

NoResult == [value |-> "none", files |-> <<>>, insights |-> FALSE]

NoError == [name |-> "none", message |-> "none"]
\* the Error originalWorkflow() rejects with
WorkError == [name |-> "Error", message |-> "work failed"]
\* a rejection with no error object: Promise.reject(undefined)
UndefinedRejection == [name |-> "undefined", message |-> "undefined"]
\* reading error.message of undefined
TypeError == [name |-> "TypeError", message |-> "Cannot read properties of undefined"]
\* fs.mkdir / fs.writeFile rejecting in the named operation
IoError(op) == [name |-> "Error", message |-> op]

NoOutcome == [kind |-> "none", value |-> NoResult, error |-> NoError]
\* enhanceSpecWorkflow returning without the result
ReturnedNothing(value) == [kind |-> "returned", value |-> NoResult, error |-> NoError]
Returned(value) == [kind |-> "returned", value |-> value, error |-> NoError]
Thrown(error) == [kind |-> "thrown", value |-> NoResult, error |-> error]

NoGit == [attempted |-> FALSE, addFailed |-> {}, committed |-> FALSE]

generatePhaseInstruction(context) ==
  LET phase == context.currentPhase
      request(from, to, task) ==
        [from |-> from, to |-> to, task |-> task \o context.featureName,
         priority |-> "high"]
  IN  CASE phase = "requirements" ->
             request("claude", "gemini", <<"R","e","q","u","i","r","e","m","e","n","t","s"," ","a","n","a","l","y","s","i","s"," ","f","o","r"," ">>)
        [] phase = "design" ->
             request("claude", "gemini", <<"T","e","c","h","n","i","c","a","l"," ","d","e","s","i","g","n"," ","f","o","r"," ">>)
        [] phase = "implementation" ->
             request("claude", "gemini", <<"I","m","p","l","e","m","e","n","t","a","t","i","o","n"," ","o","f"," ">>)
        [] phase = "tasks" ->
             request("claude", "gemini", <<"T","a","s","k"," ","p","l","a","n","n","i","n","g"," ","f","o","r"," ">>)
        [] phase = "quality" ->
             request("gemini", "codex", <<"Q","u","a","l","i","t","y"," ","a","s","s","e","s","s","m","e","n","t"," ","f","o","r"," ">>)
        [] OTHER -> Null

\* `${context.currentPhase} phase for ${context.featureName}`
phaseTask(context) ==
  PhaseText[context.currentPhase] \o <<" ","p","h","a","s","e"," ","f","o","r"," ">> \o context.featureName

generatePhaseReport(context, result) ==
  LET phase == context.currentPhase
      report(from, to, completedItems) ==
        [from |-> from, to |-> to, task |-> phaseTask(context),
         status |-> "completed", completedItems |-> completedItems,
         blockedItems |-> <<>>]
  IN  CASE phase \in {"requirements", "design", "tasks"} ->
             report("claude", "gemini", << <<phase, "phase completed successfully">> >>)
        [] phase = "implementation" ->
             report("gemini", "codex",
                    <<"Implementation completed", "Tests written", "Documentation updated">>)
        [] phase = "quality" ->
             report("codex", "claude", <<"Quality gates executed", "Results analyzed">>)
        [] OTHER -> Null

\* the error report of handleWorkflowError
errorReport(context, error) ==
  [from |-> context.aiRole, to |-> "claude", task |-> phaseTask(context),
   status |-> "blocked", completedItems |-> <<>>,
   blockedItems |-> << <<"Error in", context.currentPhase, "phase:", error.message>> >>]

\* the paths autoGitCommit stages
filesToCommit(result) ==
  result.files \o <<"docs/instructions/", "docs/reports/", "docs/handover/learnings/">>

\* docs/handover/learnings/technical/Learning_<timestamp>_<phase>_<feature>.md
learningFile(context, timestamp) ==
  <<"docs", "handover", "learnings", "technical",
    <<"Learning_", timestamp, "_", context.currentPhase, "_", context.featureName, ".md">> >>

\* docs/fdd/<feature>/ui-design/UI_Design_<timestamp>_<feature>.md
uiDesignFile(featureName, timestamp) ==
  <<"docs", "fdd", featureName, "ui-design",
    <<"UI_Design_", timestamp, "_", featureName, ".md">> >>

WorkflowStart ==
  /\ wfPc = "idle"
  /\ wfContext \in WorkflowContexts
  /\ wfResult = NoResult
  /\ wfCaught = NoError
  /\ wfGit = NoGit
  /\ wfOutcome = NoOutcome
  /\ wfLog = <<>>

\* the catch clause of enhanceSpecWorkflow takes over with the error
catch(error) ==
  /\ wfCaught' = error
  /\ wfPc' = "handleWorkflowError"

\* the caller invokes enhanceSpecWorkflow(originalWorkflow, context)
EnhanceSpecWorkflow ==
  /\ wfPc = "idle"
  /\ wfPc' = "preWorkflowSetup"
  /\ UNCHANGED <<wfContext, wfResult, wfCaught, wfGit, wfOutcome, wfLog>>
  /\ UNCHANGED <<storeVars, todoVars, fddVars, cmdVars, projVars, msgVars, runVars>>

\* preWorkflowSetup, first await: the phase instruction is written (or not, for
\* a phase without one)
PreCreateInstruction ==
  /\ wfPc = "preWorkflowSetup"
  /\ LET instruction == generatePhaseInstruction(wfContext)
     IN  IF instruction = Null
         THEN /\ wfPc' = "initializeFdd"
              /\ UNCHANGED <<docs, wfCaught, wfLog>>
         ELSE \/ /\ docs' = createInstruction(docs, instruction, generateTimestamp)
                 /\ wfLog' = Append(wfLog, "instruction")
                 /\ wfPc' = "initializeFdd"
                 /\ UNCHANGED wfCaught
              \/ /\ catch(IoError("EACCES: createInstruction"))
                 /\ UNCHANGED <<docs, wfLog>>
  /\ UNCHANGED <<wfContext, wfResult, wfGit, wfOutcome>>
  /\ UNCHANGED <<now, todoVars, fddVars, cmdVars, projVars, msgVars, runVars>>

\* preWorkflowSetup, second await: initializeFddWorkflow for an FDD design
\* phase; then the setup<Phase>Phase methods, which only log
PreInitializeFdd ==
  /\ wfPc = "initializeFdd"
  /\ IF wfContext.enableFdd /\ wfContext.currentPhase = "design"
     THEN \/ /\ docs' = writeFile(docs, uiDesignFile(wfContext.featureName, now),
                                  [kind |-> "ui-design"])
             /\ wfLog' = Append(wfLog, "initializeFddWorkflow")
             /\ wfPc' = "originalWorkflow"
             /\ UNCHANGED wfCaught
          \/ /\ catch(IoError("EACCES: initializeFddWorkflow"))
             /\ UNCHANGED <<docs, wfLog>>
     ELSE /\ wfPc' = "originalWorkflow"
          /\ UNCHANGED <<docs, wfCaught, wfLog>>
  /\ UNCHANGED <<wfContext, wfResult, wfGit, wfOutcome>>
  /\ UNCHANGED <<now, todoVars, fddVars, cmdVars, projVars, msgVars, runVars>>

\* const result = await originalWorkflow()
OriginalWorkflow ==
  /\ wfPc = "originalWorkflow"
  /\ wfLog' = Append(wfLog, "work")
  /\ \/ \E result \in WorkResults :
          /\ wfResult' = result
          /\ wfPc' = "postWorkflowCleanup"
          /\ UNCHANGED wfCaught
     \/ \E error \in {WorkError, UndefinedRejection} :
          /\ catch(error)
          /\ UNCHANGED wfResult
  /\ UNCHANGED <<wfContext, wfGit, wfOutcome>>
  /\ UNCHANGED <<storeVars, todoVars, fddVars, cmdVars, projVars, msgVars, runVars>>

\* postWorkflowCleanup, first await: the completed report is written
PostCreateReport ==
  /\ wfPc = "postWorkflowCleanup"
  /\ LET report == generatePhaseReport(wfContext, wfResult)
     IN  IF report = Null
         THEN /\ wfPc' = "captureLearningInsights"
              /\ UNCHANGED <<docs, wfCaught, wfLog>>
         ELSE \/ /\ docs' = createReport(docs, report, generateTimestamp)
                 /\ wfLog' = Append(wfLog, "report")
                 /\ wfPc' = "captureLearningInsights"
                 /\ UNCHANGED wfCaught
              \/ /\ catch(IoError("EACCES: createReport"))
                 /\ UNCHANGED <<docs, wfLog>>
  /\ UNCHANGED <<wfContext, wfResult, wfGit, wfOutcome>>
  /\ UNCHANGED <<now, todoVars, fddVars, cmdVars, projVars, msgVars, runVars>>

\* postWorkflowCleanup, second await: the learning record, when the result
\* carries insights, challenges or solutions
CaptureLearningInsights ==
  /\ wfPc = "captureLearningInsights"
  /\ IF wfResult.insights
     THEN \/ /\ docs' = writeFile(docs, learningFile(wfContext, now), [kind |-> "learning"])
             /\ wfLog' = Append(wfLog, "learning")
             /\ wfPc' = "autoGitCommit"
             /\ UNCHANGED wfCaught
          \/ /\ catch(IoError("EACCES: captureLearningInsights"))
             /\ UNCHANGED <<docs, wfLog>>
     ELSE /\ wfPc' = "autoGitCommit"
          /\ UNCHANGED <<docs, wfCaught, wfLog>>
  /\ UNCHANGED <<wfContext, wfResult, wfGit, wfOutcome>>
  /\ UNCHANGED <<now, todoVars, fddVars, cmdVars, projVars, msgVars, runVars>>

\* autoGitCommit letting a failed git commit escape its try block
autoGitCommitRethrows(result, addFailed, commitOk) ==
  /\ wfGit' = [attempted |-> TRUE, addFailed |-> addFailed, committed |-> commitOk]
  /\ wfLog' = Append(wfLog, "commit")
  /\ wfOutcome' = IF commitOk THEN Returned(result) ELSE Thrown(IoError("git commit"))
  /\ wfPc' = "done"

\* autoGitCommit: git add of each path (a failure is ignored), then git commit
\* (a failure is caught and logged); then enhanceSpecWorkflow returns result
autoGitCommit(result, addFailed, commitOk) ==
  /\ wfGit' = [attempted |-> TRUE, addFailed |-> addFailed, committed |-> commitOk]
  /\ wfLog' = Append(wfLog, "commit")
  /\ wfOutcome' = Returned(result)
  /\ wfPc' = "done"

AutoGitCommit ==
  /\ wfPc = "autoGitCommit"
  /\ \E addFailed \in SUBSET Range(filesToCommit(wfResult)), commitOk \in BOOLEAN :
        autoGitCommit(wfResult, addFailed, commitOk)
  /\ UNCHANGED <<wfContext, wfResult, wfCaught>>
  /\ UNCHANGED <<storeVars, todoVars, fddVars, cmdVars, projVars, msgVars, runVars>>

\* handleWorkflowError rethrowing without the error report
handleWorkflowErrorNoReport(context, error, writeOk) ==
  /\ wfOutcome' = Thrown(error)
  /\ UNCHANGED <<docs, wfLog>>

\* handleWorkflowError(context, error), then `throw error`
handleWorkflowError(context, error, writeOk) ==
  IF error = UndefinedRejection
  THEN \* console.error(..., error.message) throws
       /\ wfOutcome' = Thrown(TypeError)
       /\ UNCHANGED <<docs, wfLog>>
  ELSE IF writeOk
       THEN /\ docs' = createReport(docs, errorReport(context, error), generateTimestamp)
            /\ wfLog' = Append(wfLog, "blocked report")
            /\ wfOutcome' = Thrown(error)
       ELSE \* createReport rejects inside the catch clause
            /\ wfOutcome' = Thrown(IoError("EACCES: createReport"))
            /\ wfLog' = Append(wfLog, "blocked report failed")
            /\ UNCHANGED docs

HandleWorkflowError ==
  /\ wfPc = "handleWorkflowError"
  /\ \E writeOk \in BOOLEAN : handleWorkflowError(wfContext, wfCaught, writeOk)
  /\ wfPc' = "done"
  /\ UNCHANGED <<wfContext, wfResult, wfCaught, wfGit>>
  /\ UNCHANGED <<now, todoVars, fddVars, cmdVars, projVars, msgVars, runVars>>

(***************************************************************************)
(* FDD phase chain and phase execution: FDDWorkflowManager.                *)
(***************************************************************************)
\* an optional field that is not set
Undefined == "undefined"

FDDPhaseNames == {"ui-mockup", "prototype", "user-test", "implementation", "integration"}

FDDPhaseText ==
  ("ui-mockup" :> <<"u","i","-","m","o","c","k","u","p">>) @@ ("prototype" :> <<"p","r","o","t","o","t","y","p","e">>) @@
  ("user-test" :> <<"u","s","e","r","-","t","e","s","t">>) @@ ("implementation" :> <<"i","m","p","l","e","m","e","n","t","a","t","i","o","n">>) @@
  ("integration" :> <<"i","n","t","e","g","r","a","t","i","o","n">>)

UiFrameworks == {"react", "vue"}

FlagKeys == {"enableMockups", "enablePrototyping", "enableUserTesting"}

\* the defaults of the FDDWorkflowManager constructor
DefaultFDDConfig ==
  [enableMockups |-> TRUE, enablePrototyping |-> TRUE, enableUserTesting |-> FALSE,
   uiFramework |-> "react"]

\* { ...config, ...newConfig }: flags is the part of newConfig that sets flags,
\* uiFramework its uiFramework, Undefined when it sets none
mergeConfig(config, flags, uiFramework) ==
  [enableMockups     |-> IF "enableMockups" \in DOMAIN flags
                         THEN flags["enableMockups"] ELSE config.enableMockups,
   enablePrototyping |-> IF "enablePrototyping" \in DOMAIN flags
                         THEN flags["enablePrototyping"] ELSE config.enablePrototyping,
   enableUserTesting |-> IF "enableUserTesting" \in DOMAIN flags
                         THEN flags["enableUserTesting"] ELSE config.enableUserTesting,
   uiFramework       |-> IF uiFramework # Undefined THEN uiFramework ELSE config.uiFramework]

PartialFlags == UNION {[ks -> BOOLEAN] : ks \in SUBSET FlagKeys}

\* prototype.nextPhase fixed to 'implementation' whatever the configuration
generateFDDWorkflowStaleLink(config, featureName) ==
  LET head ==
        << [name |-> "ui-mockup", nextPhase |-> "prototype"],
           [name |-> "prototype", nextPhase |-> "implementation"] >>
      tested ==
        IF config.enableUserTesting
        THEN Append(head, [name |-> "user-test", nextPhase |-> "implementation"])
        ELSE head
  IN  tested \o << [name |-> "implementation", nextPhase |-> "integration"],
                   [name |-> "integration", nextPhase |-> Undefined] >>

\* the user-test phase pushed after implementation instead of before it
generateFDDWorkflowLateTest(config, featureName) ==
  LET head ==
        << [name |-> "ui-mockup", nextPhase |-> "prototype"],
           [name |-> "prototype",
            nextPhase |-> IF config.enableUserTesting THEN "user-test" ELSE "implementation"],
           [name |-> "implementation", nextPhase |-> "integration"] >>
      tested ==
        IF config.enableUserTesting
        THEN Append(head, [name |-> "user-test", nextPhase |-> "implementation"])
        ELSE head
  IN  Append(tested, [name |-> "integration", nextPhase |-> Undefined])

\* generateFDDWorkflow: the phases in order, each with its name and nextPhase
\* (description and deliverables are fixed texts per name)
generateFDDWorkflow(config, featureName) ==
  LET phases ==
        << [name |-> "ui-mockup", nextPhase |-> "prototype"],
           [name |-> "prototype",
            nextPhase |-> IF config.enableUserTesting THEN "user-test" ELSE "implementation"] >>
      tested ==
        IF config.enableUserTesting
        THEN Append(phases, [name |-> "user-test", nextPhase |-> "implementation"])
        ELSE phases
  IN  tested \o << [name |-> "implementation", nextPhase |-> "integration"],
                   [name |-> "integration", nextPhase |-> Undefined] >>

\* the file names executePhaseWork returns for a phase
executePhaseWork(config, phase) ==
  CASE phase.name = "ui-mockup" -> <<"wireframes.md", <<config.uiFramework, "_components.md">> >>
    [] phase.name = "prototype" -> <<"PROTOTYPE_SPEC.md">>
    [] phase.name = "user-test" -> <<"testing_plan.md">>
    [] phase.name = "implementation" -> <<"IMPLEMENTATION.md">>
    [] phase.name = "integration" -> <<"INTEGRATION.md">>
    [] OTHER -> <<>>

\* `FDD ${phase.name} phase for ${featureName}`
fddPhaseTask(phase, featureName) ==
  <<"F","D","D"," ">> \o FDDPhaseText[phase.name] \o <<" ","p","h","a","s","e"," ","f","o","r"," ">> \o featureName

\* `Prepare for FDD ${nextPhase} phase: ${featureName}`
prepareTask(nextPhase, featureName) ==
  <<"P","r","e","p","a","r","e"," ","f","o","r"," ","F","D","D"," ">> \o FDDPhaseText[nextPhase] \o <<" ","p","h","a","s","e",":"," ">> \o featureName

\* the awaits of executeFDDPhase that can reject, in order
FailPoints(phase) ==
  {"createInstruction", "executePhaseWork", "createReport"}
    \cup (IF phase.nextPhase # Undefined THEN {"prepareNextPhase"} ELSE {})

\* executeFDDPhase(phase, featureName, userRequirements) run to its end.
\* failAt names the await that rejects ("none": no await rejects); errorWriteOk
\* tells whether the error report of the catch clause can be written.
\* The result holds the files afterwards and what the caller observes.
executeFDDPhase(files, config, phase, featureName, timestamp, failAt, errorWriteOk) ==
  LET task == fddPhaseTask(phase, featureName)
      instruction == [from |-> "claude", to |-> "gemini", task |-> task, priority |-> "high"]
      deliverables == executePhaseWork(config, phase)
      report == [from |-> "claude", to |-> "gemini", task |-> task, status |-> "completed",
                 completedItems |-> deliverables, blockedItems |-> <<>>]
      preparation == [from |-> "claude", to |-> "gemini",
                      task |-> prepareTask(phase.nextPhase, featureName),
                      priority |-> "medium"]
      error == IoError(failAt)
      blocked == [from |-> "claude", to |-> "gemini", task |-> task, status |-> "blocked",
                  completedItems |-> <<>>,
                  blockedItems |-> << <<phase.name, "phase failed:", error.message>> >>]
      afterInstruction == createInstruction(files, instruction, timestamp)
      afterWork ==
        writeFile(afterInstruction, <<"fdd", featureName, phase.name>>,
                  [kind |-> "deliverables", files |-> deliverables])
      afterReport == createReport(afterWork, report, timestamp)
      afterPrepare ==
        IF phase.nextPhase # Undefined
        THEN createInstruction(afterReport, preparation, timestamp)
        ELSE afterReport
      reached ==
        CASE failAt = "createInstruction" -> files
          [] failAt = "executePhaseWork"  -> afterInstruction
          [] failAt = "createReport"      -> afterWork
          [] failAt = "prepareNextPhase"  -> afterReport
          [] OTHER                        -> afterPrepare
  IN  IF failAt = "none"
      THEN [files |-> afterPrepare, threw |-> FALSE, success |-> TRUE,
            deliverables |-> deliverables, phase |-> phase.name, failAt |-> failAt]
      ELSE IF errorWriteOk
           THEN [files |-> createReport(reached, blocked, timestamp), threw |-> FALSE,
                 success |-> FALSE, deliverables |-> <<>>, phase |-> phase.name,
                 failAt |-> failAt]
           ELSE [files |-> reached, threw |-> TRUE, success |-> FALSE,
                 deliverables |-> <<>>, phase |-> phase.name, failAt |-> failAt]

NoPhaseResult ==
  [threw |-> FALSE, success |-> FALSE, deliverables |-> <<>>, phase |-> "none",
   failAt |-> "none"]

FddStart ==
  /\ fddConfig \in {mergeConfig(DefaultFDDConfig, flags, ui) :
                      flags \in PartialFlags, ui \in UiFrameworks \cup {Undefined}}
  /\ fddChain = <<>>
  /\ fddResult = NoPhaseResult

\* updateConfig(newConfig), newConfig setting one flag or the framework
UpdateConfig ==
  /\ \/ \E key \in FlagKeys, value \in BOOLEAN :
          fddConfig' = mergeConfig(fddConfig, [k \in {key} |-> value], Undefined)
     \/ \E ui \in UiFrameworks :
          fddConfig' = mergeConfig(fddConfig, <<>>, ui)
  /\ UNCHANGED <<fddChain, fddResult>>
  /\ UNCHANGED <<storeVars, todoVars, wfVars, cmdVars, projVars, msgVars, runVars>>

\* a caller asks for the chain of a feature
GenerateFDDWorkflow ==
  /\ \E featureName \in FeatureNames :
        fddChain' = generateFDDWorkflow(fddConfig, featureName)
  /\ UNCHANGED <<fddConfig, fddResult>>
  /\ UNCHANGED <<storeVars, todoVars, wfVars, cmdVars, projVars, msgVars, runVars>>

\* the caller runs executeFDDPhase, once, on a phase of the chain it holds
ExecuteFDDPhase ==
  /\ fddResult = NoPhaseResult
  /\ \E featureName \in FeatureNames :
     \E phase \in Range(fddChain) :
     \E failAt \in FailPoints(phase) \cup {"none"}, errorWriteOk \in BOOLEAN :
        LET r == executeFDDPhase(docs, fddConfig, phase, featureName, generateTimestamp,
                                 failAt, errorWriteOk)
        IN  /\ docs' = r.files
            /\ fddResult' = [threw |-> r.threw, success |-> r.success,
                             deliverables |-> r.deliverables, phase |-> r.phase,
                             failAt |-> r.failAt]
  /\ UNCHANGED <<fddConfig, fddChain, now>>
  /\ UNCHANGED <<todoVars, wfVars, cmdVars, projVars, msgVars, runVars>>

(***************************************************************************)
(* Two phase runs side by side: the documents each of them writes.         *)
(***************************************************************************)
\* a phase run a caller starts: enhanceSpecWorkflow on a phase of the spec
\* workflow, or executeFDDPhase on a phase of the default chain
RunContexts ==
  {[kind |-> "spec", phase |-> phase, nextPhase |-> Undefined, featureName |-> featureName] :
     phase \in Phases, featureName \in FeatureNames}
  \cup
  {[kind |-> "fdd", phase |-> phase.name, nextPhase |-> phase.nextPhase,
    featureName |-> featureName] :
     phase \in Range(generateFDDWorkflow(DefaultFDDConfig, <<"l","o","g","i","n">>)),
     featureName \in FeatureNames}

\* the WorkflowContext of a spec run
runContext(run) ==
  [projectRoot |-> ".", currentPhase |-> run.phase, featureName |-> run.featureName,
   aiRole |-> "claude", enableFdd |-> FALSE]

\* the instruction the run creates first
runInstruction(run) ==
  IF run.kind = "spec"
  THEN generatePhaseInstruction(runContext(run))
  ELSE [from |-> "claude", to |-> "gemini",
        task |-> fddPhaseTask([name |-> run.phase], run.featureName), priority |-> "high"]

\* the completed report the run creates after its work
runReport(run) ==
  IF run.kind = "spec"
  THEN generatePhaseReport(runContext(run), NoResult)
  ELSE [from |-> "claude", to |-> "gemini",
        task |-> fddPhaseTask([name |-> run.phase], run.featureName),
        status |-> "completed", completedItems |-> <<>>, blockedItems |-> <<>>]

\* prepareNextPhase: the instruction for the next phase of an FDD run
runPreparation(run) ==
  [from |-> "claude", to |-> "gemini",
   task |-> prepareTask(run.nextPhase, run.featureName), priority |-> "medium"]

RunsIdle == runs = <<>>

\* two callers start one phase run each, for different features
RunsStart ==
  /\ runs \in [1..2 -> {[context |-> c, pc |-> "createInstruction", written |-> {}] :
                          c \in RunContexts}]
  /\ runs[1].context.featureName # runs[2].context.featureName

\* run r reaches `await createInstruction(instruction)`
RunCreateInstruction ==
  /\ \E r \in DOMAIN runs :
       LET run == runs[r]
           path == instructionPath(runInstruction(run.context), generateTimestamp)
       IN  /\ run.pc = "createInstruction"
           /\ docs' = createInstruction(docs, runInstruction(run.context), generateTimestamp)
           /\ runs' = [runs EXCEPT ![r].pc = "createReport",
                                   ![r].written = run.written \cup {path}]
  /\ UNCHANGED <<now, todoVars, wfVars, fddVars, cmdVars, projVars, msgVars>>

\* run r does its work and reaches `await createReport(report)`
RunCreateReport ==
  /\ \E r \in DOMAIN runs :
       LET run == runs[r]
           path == reportPath(runReport(run.context), generateTimestamp)
       IN  /\ run.pc = "createReport"
           /\ docs' = createReport(docs, runReport(run.context), generateTimestamp)
           /\ runs' = [runs EXCEPT
                         ![r].pc = IF run.context.nextPhase # Undefined
                                   THEN "prepareNextPhase" ELSE "done",
                         ![r].written = run.written \cup {path}]
  /\ UNCHANGED <<now, todoVars, wfVars, fddVars, cmdVars, projVars, msgVars>>

\* run r, an FDD run with a next phase, reaches prepareNextPhase
RunPrepareNextPhase ==
  /\ \E r \in DOMAIN runs :
       LET run == runs[r]
           path == instructionPath(runPreparation(run.context), generateTimestamp)
       IN  /\ run.pc = "prepareNextPhase"
           /\ docs' = createInstruction(docs, runPreparation(run.context), generateTimestamp)
           /\ runs' = [runs EXCEPT ![r].pc = "done",
                                   ![r].written = run.written \cup {path}]
  /\ UNCHANGED <<now, todoVars, wfVars, fddVars, cmdVars, projVars, msgVars>>

(***************************************************************************)
(* FDD commands: FDDCommandIntegration.processFDDCommand.                  *)
(***************************************************************************)
FDDCommands ==
  {"kiro:fdd-init", "kiro:fdd-mockup", "kiro:fdd-prototype", "kiro:fdd-test",
   "kiro:fdd-implement", "kiro:fdd-integrate", "kiro:fdd-full"}

UnknownCommands == {"kiro:fdd-deploy"}

\* `${options.uiFramework}`: an unset option prints as undefined
UiFrameworkText ==
  ("react" :> <<"r","e","a","c","t">>) @@ ("vue" :> <<"v","u","e">>) @@ (Undefined :> <<"u","n","d","e","f","i","n","e","d">>)

\* FDDCommandOptions; an unset flag is falsy and is written FALSE
FDDCommandOptions ==
  [featureName : FeatureNames, uiFramework : {"react", Undefined},
   enableUserTesting : BOOLEAN, skipPrototype : BOOLEAN]

initTodos(options) ==
  <<
     [content |-> <<"I","n","i","t","i","a","l","i","z","e"," ","F","D","D"," ","w","o","r","k","s","p","a","c","e"," ","f","o","r"," ">> \o options.featureName,
      activeForm |-> <<"I","n","i","t","i","a","l","i","z","i","n","g"," ","F","D","D"," ","w","o","r","k","s","p","a","c","e"," ","f","o","r"," ">> \o options.featureName,
      status |-> "completed"],
     [content |-> <<"S","e","t"," ","u","p"," ">> \o UiFrameworkText[IF options.uiFramework = Undefined THEN "react" ELSE options.uiFramework] \o <<" ","d","e","v","e","l","o","p","m","e","n","t"," ","e","n","v","i","r","o","n","m","e","n","t">>,
      activeForm |-> <<"S","e","t","t","i","n","g"," ","u","p"," ">> \o UiFrameworkText[IF options.uiFramework = Undefined THEN "react" ELSE options.uiFramework] \o <<" ","d","e","v","e","l","o","p","m","e","n","t"," ","e","n","v","i","r","o","n","m","e","n","t">>,
      status |-> "pending"],
     [content |-> <<"C","r","e","a","t","e"," ","d","e","s","i","g","n"," ","s","y","s","t","e","m"," ","f","o","u","n","d","a","t","i","o","n">>,
      activeForm |-> <<"C","r","e","a","t","i","n","g"," ","d","e","s","i","g","n"," ","s","y","s","t","e","m"," ","f","o","u","n","d","a","t","i","o","n">>,
      status |-> "pending"],
     [content |-> <<"D","o","c","u","m","e","n","t"," ","F","D","D"," ","w","o","r","k","f","l","o","w"," ","p","r","o","c","e","s","s">>,
      activeForm |-> <<"D","o","c","u","m","e","n","t","i","n","g"," ","F","D","D"," ","w","o","r","k","f","l","o","w"," ","p","r","o","c","e","s","s">>,
      status |-> "pending"] >>

mockupTodos(options) ==
  <<
     [content |-> <<"C","r","e","a","t","e"," ","w","i","r","e","f","r","a","m","e"," ","d","e","s","i","g","n","s"," ","f","o","r"," ">> \o options.featureName,
      activeForm |-> <<"C","r","e","a","t","i","n","g"," ","w","i","r","e","f","r","a","m","e"," ","d","e","s","i","g","n","s"," ","f","o","r"," ">> \o options.featureName,
      status |-> "pending"],
     [content |-> <<"D","e","s","i","g","n"," ","U","I"," ","c","o","m","p","o","n","e","n","t"," ","b","r","e","a","k","d","o","w","n">>,
      activeForm |-> <<"D","e","s","i","g","n","i","n","g"," ","U","I"," ","c","o","m","p","o","n","e","n","t"," ","b","r","e","a","k","d","o","w","n">>,
      status |-> "pending"],
     [content |-> <<"M","a","p"," ","u","s","e","r"," ","i","n","t","e","r","a","c","t","i","o","n"," ","f","l","o","w","s">>,
      activeForm |-> <<"M","a","p","p","i","n","g"," ","u","s","e","r"," ","i","n","t","e","r","a","c","t","i","o","n"," ","f","l","o","w","s">>,
      status |-> "pending"],
     [content |-> <<"C","r","e","a","t","e"," ">> \o UiFrameworkText[options.uiFramework] \o <<" ","c","o","m","p","o","n","e","n","t"," ","s","p","e","c","i","f","i","c","a","t","i","o","n","s">>,
      activeForm |-> <<"C","r","e","a","t","i","n","g"," ">> \o UiFrameworkText[options.uiFramework] \o <<" ","c","o","m","p","o","n","e","n","t"," ","s","p","e","c","i","f","i","c","a","t","i","o","n","s">>,
      status |-> "pending"],
     [content |-> <<"R","e","v","i","e","w"," ","a","n","d"," ","v","a","l","i","d","a","t","e"," ","U","I"," ","m","o","c","k","u","p","s">>,
      activeForm |-> <<"R","e","v","i","e","w","i","n","g"," ","a","n","d"," ","v","a","l","i","d","a","t","i","n","g"," ","U","I"," ","m","o","c","k","u","p","s">>,
      status |-> "pending"] >>

prototypeSkippedTodos(options) ==
  <<
     [content |-> <<"P","r","o","t","o","t","y","p","e"," ","p","h","a","s","e"," ","s","k","i","p","p","e","d"," ","f","o","r"," ">> \o options.featureName,
      activeForm |-> <<"S","k","i","p","p","i","n","g"," ","p","r","o","t","o","t","y","p","e"," ","p","h","a","s","e"," ","f","o","r"," ">> \o options.featureName,
      status |-> "completed"] >>

prototypeTodos(options) ==
  <<
     [content |-> <<"B","u","i","l","d"," ","i","n","t","e","r","a","c","t","i","v","e"," ","p","r","o","t","o","t","y","p","e"," ","u","s","i","n","g"," ">> \o UiFrameworkText[options.uiFramework],
      activeForm |-> <<"B","u","i","l","d","i","n","g"," ","i","n","t","e","r","a","c","t","i","v","e"," ","p","r","o","t","o","t","y","p","e"," ","u","s","i","n","g"," ">> \o UiFrameworkText[options.uiFramework],
      status |-> "pending"],
     [content |-> <<"I","m","p","l","e","m","e","n","t"," ","c","o","r","e"," ","U","I"," ","c","o","m","p","o","n","e","n","t","s">>,
      activeForm |-> <<"I","m","p","l","e","m","e","n","t","i","n","g"," ","c","o","r","e"," ","U","I"," ","c","o","m","p","o","n","e","n","t","s">>,
      status |-> "pending"],
     [content |-> <<"C","r","e","a","t","e"," ","u","s","e","r"," ","i","n","t","e","r","a","c","t","i","o","n"," ","d","e","m","o","n","s","t","r","a","t","i","o","n","s">>,
      activeForm |-> <<"C","r","e","a","t","i","n","g"," ","u","s","e","r"," ","i","n","t","e","r","a","c","t","i","o","n"," ","d","e","m","o","n","s","t","r","a","t","i","o","n","s">>,
      status |-> "pending"],
     [content |-> <<"T","e","s","t"," ","p","r","o","t","o","t","y","p","e"," ","f","u","n","c","t","i","o","n","a","l","i","t","y">>,
      activeForm |-> <<"T","e","s","t","i","n","g"," ","p","r","o","t","o","t","y","p","e"," ","f","u","n","c","t","i","o","n","a","l","i","t","y">>,
      status |-> "pending"],
     [content |-> <<"D","o","c","u","m","e","n","t"," ","p","r","o","t","o","t","y","p","e"," ","f","e","a","t","u","r","e","s"," ","a","n","d"," ","l","i","m","i","t","a","t","i","o","n","s">>,
      activeForm |-> <<"D","o","c","u","m","e","n","t","i","n","g"," ","p","r","o","t","o","t","y","p","e"," ","f","e","a","t","u","r","e","s"," ","a","n","d"," ","l","i","m","i","t","a","t","i","o","n","s">>,
      status |-> "pending"] >>

userTestingDisabledTodos(options) ==
  <<
     [content |-> <<"U","s","e","r"," ","t","e","s","t","i","n","g"," ","d","i","s","a","b","l","e","d"," ","f","o","r"," ">> \o options.featureName,
      activeForm |-> <<"U","s","e","r"," ","t","e","s","t","i","n","g"," ","d","i","s","a","b","l","e","d"," ","f","o","r"," ">> \o options.featureName,
      status |-> "completed"] >>

userTestingTodos(options) ==
  <<
     [content |-> <<"P","r","e","p","a","r","e"," ","u","s","e","r"," ","t","e","s","t","i","n","g"," ","s","c","e","n","a","r","i","o","s"," ","f","o","r"," ">> \o options.featureName,
      activeForm |-> <<"P","r","e","p","a","r","i","n","g"," ","u","s","e","r"," ","t","e","s","t","i","n","g"," ","s","c","e","n","a","r","i","o","s"," ","f","o","r"," ">> \o options.featureName,
      status |-> "pending"],
     [content |-> <<"C","o","n","d","u","c","t"," ","u","s","e","r"," ","t","e","s","t","i","n","g"," ","s","e","s","s","i","o","n","s">>,
      activeForm |-> <<"C","o","n","d","u","c","t","i","n","g"," ","u","s","e","r"," ","t","e","s","t","i","n","g"," ","s","e","s","s","i","o","n","s">>,
      status |-> "pending"],
     [content |-> <<"A","n","a","l","y","z","e"," ","u","s","e","r"," ","f","e","e","d","b","a","c","k"," ","a","n","d"," ","i","d","e","n","t","i","f","y"," ","i","s","s","u","e","s">>,
      activeForm |-> <<"A","n","a","l","y","z","i","n","g"," ","u","s","e","r"," ","f","e","e","d","b","a","c","k"," ","a","n","d"," ","i","d","e","n","t","i","f","y","i","n","g"," ","i","s","s","u","e","s">>,
      status |-> "pending"],
     [content |-> <<"I","m","p","l","e","m","e","n","t"," ","U","I"," ","i","m","p","r","o","v","e","m","e","n","t","s"," ","b","a","s","e","d"," ","o","n"," ","f","e","e","d","b","a","c","k">>,
      activeForm |-> <<"I","m","p","l","e","m","e","n","t","i","n","g"," ","U","I"," ","i","m","p","r","o","v","e","m","e","n","t","s"," ","b","a","s","e","d"," ","o","n"," ","f","e","e","d","b","a","c","k">>,
      status |-> "pending"],
     [content |-> <<"V","a","l","i","d","a","t","e"," ","i","m","p","r","o","v","e","m","e","n","t","s"," ","w","i","t","h"," ","f","o","l","l","o","w","-","u","p"," ","t","e","s","t","i","n","g">>,
      activeForm |-> <<"V","a","l","i","d","a","t","i","n","g"," ","i","m","p","r","o","v","e","m","e","n","t","s"," ","w","i","t","h"," ","f","o","l","l","o","w","-","u","p"," ","t","e","s","t","i","n","g">>,
      status |-> "pending"] >>

implementationTodos(options) ==
  <<
     [content |-> <<"I","m","p","l","e","m","e","n","t"," ","p","r","o","d","u","c","t","i","o","n","-","r","e","a","d","y"," ">> \o UiFrameworkText[options.uiFramework] \o <<" ","c","o","m","p","o","n","e","n","t","s">>,
      activeForm |-> <<"I","m","p","l","e","m","e","n","t","i","n","g"," ","p","r","o","d","u","c","t","i","o","n","-","r","e","a","d","y"," ">> \o UiFrameworkText[options.uiFramework] \o <<" ","c","o","m","p","o","n","e","n","t","s">>,
      status |-> "pending"],
     [content |-> <<"W","r","i","t","e"," ","c","o","m","p","r","e","h","e","n","s","i","v","e"," ","u","n","i","t"," ","t","e","s","t","s"," ","f","o","r"," ","c","o","m","p","o","n","e","n","t","s">>,
      activeForm |-> <<"W","r","i","t","i","n","g"," ","c","o","m","p","r","e","h","e","n","s","i","v","e"," ","u","n","i","t"," ","t","e","s","t","s"," ","f","o","r"," ","c","o","m","p","o","n","e","n","t","s">>,
      status |-> "pending"],
     [content |-> <<"C","r","e","a","t","e"," ","i","n","t","e","g","r","a","t","i","o","n"," ","t","e","s","t","s"," ","f","o","r"," ","u","s","e","r"," ","f","l","o","w","s">>,
      activeForm |-> <<"C","r","e","a","t","i","n","g"," ","i","n","t","e","g","r","a","t","i","o","n"," ","t","e","s","t","s"," ","f","o","r"," ","u","s","e","r"," ","f","l","o","w","s">>,
      status |-> "pending"],
     [content |-> <<"I","m","p","l","e","m","e","n","t"," ","a","c","c","e","s","s","i","b","i","l","i","t","y"," ","f","e","a","t","u","r","e","s"," ","(","W","C","A","G"," ","c","o","m","p","l","i","a","n","c","e",")">>,
      activeForm |-> <<"I","m","p","l","e","m","e","n","t","i","n","g"," ","a","c","c","e","s","s","i","b","i","l","i","t","y"," ","f","e","a","t","u","r","e","s"," ","(","W","C","A","G"," ","c","o","m","p","l","i","a","n","c","e",")">>,
      status |-> "pending"],
     [content |-> <<"O","p","t","i","m","i","z","e"," ","p","e","r","f","o","r","m","a","n","c","e"," ","a","n","d"," ","b","u","n","d","l","e"," ","s","i","z","e">>,
      activeForm |-> <<"O","p","t","i","m","i","z","i","n","g"," ","p","e","r","f","o","r","m","a","n","c","e"," ","a","n","d"," ","b","u","n","d","l","e"," ","s","i","z","e">>,
      status |-> "pending"],
     [content |-> <<"D","o","c","u","m","e","n","t"," ","c","o","m","p","o","n","e","n","t"," ","A","P","I","s"," ","a","n","d"," ","u","s","a","g","e"," ","e","x","a","m","p","l","e","s">>,
      activeForm |-> <<"D","o","c","u","m","e","n","t","i","n","g"," ","c","o","m","p","o","n","e","n","t"," ","A","P","I","s"," ","a","n","d"," ","u","s","a","g","e"," ","e","x","a","m","p","l","e","s">>,
      status |-> "pending"] >>

integrationTodos(options) ==
  <<
     [content |-> <<"I","n","t","e","g","r","a","t","e"," ">> \o options.featureName \o <<" ","c","o","m","p","o","n","e","n","t","s"," ","i","n","t","o"," ","m","a","i","n"," ","a","p","p","l","i","c","a","t","i","o","n">>,
      activeForm |-> <<"I","n","t","e","g","r","a","t","i","n","g"," ">> \o options.featureName \o <<" ","c","o","m","p","o","n","e","n","t","s"," ","i","n","t","o"," ","m","a","i","n"," ","a","p","p","l","i","c","a","t","i","o","n">>,
      status |-> "pending"],
     [content |-> <<"C","o","n","f","i","g","u","r","e"," ","r","o","u","t","i","n","g"," ","a","n","d"," ","n","a","v","i","g","a","t","i","o","n"," ","f","o","r"," ","n","e","w"," ","f","e","a","t","u","r","e">>,
      activeForm |-> <<"C","o","n","f","i","g","u","r","i","n","g"," ","r","o","u","t","i","n","g"," ","a","n","d"," ","n","a","v","i","g","a","t","i","o","n"," ","f","o","r"," ","n","e","w"," ","f","e","a","t","u","r","e">>,
      status |-> "pending"],
     [content |-> <<"I","m","p","l","e","m","e","n","t"," ","s","t","a","t","e"," ","m","a","n","a","g","e","m","e","n","t"," ","i","n","t","e","g","r","a","t","i","o","n">>,
      activeForm |-> <<"I","m","p","l","e","m","e","n","t","i","n","g"," ","s","t","a","t","e"," ","m","a","n","a","g","e","m","e","n","t"," ","i","n","t","e","g","r","a","t","i","o","n">>,
      status |-> "pending"],
     [content |-> <<"C","r","e","a","t","e"," ","e","n","d","-","t","o","-","e","n","d"," ","t","e","s","t","s"," ","f","o","r"," ","c","o","m","p","l","e","t","e"," ","u","s","e","r"," ","j","o","u","r","n","e","y","s">>,
      activeForm |-> <<"C","r","e","a","t","i","n","g"," ","e","n","d","-","t","o","-","e","n","d"," ","t","e","s","t","s"," ","f","o","r"," ","c","o","m","p","l","e","t","e"," ","u","s","e","r"," ","j","o","u","r","n","e","y","s">>,
      status |-> "pending"],
     [content |-> <<"V","e","r","i","f","y"," ","c","r","o","s","s","-","b","r","o","w","s","e","r"," ","c","o","m","p","a","t","i","b","i","l","i","t","y">>,
      activeForm |-> <<"V","e","r","i","f","y","i","n","g"," ","c","r","o","s","s","-","b","r","o","w","s","e","r"," ","c","o","m","p","a","t","i","b","i","l","i","t","y">>,
      status |-> "pending"],
     [content |-> <<"P","r","e","p","a","r","e"," ","d","e","p","l","o","y","m","e","n","t"," ","d","o","c","u","m","e","n","t","a","t","i","o","n"," ","a","n","d"," ","p","r","o","c","e","d","u","r","e","s">>,
      activeForm |-> <<"P","r","e","p","a","r","i","n","g"," ","d","e","p","l","o","y","m","e","n","t"," ","d","o","c","u","m","e","n","t","a","t","i","o","n"," ","a","n","d"," ","p","r","o","c","e","d","u","r","e","s">>,
      status |-> "pending"] >>

\* the steps a command awaits, in order: "init" is initializeFDDWorkflow, a
\* phase name is the create...Todos function of that phase
commandSteps(command, options) ==
  CASE command = "kiro:fdd-init"      -> <<"init">>
    [] command = "kiro:fdd-mockup"    -> <<"ui-mockup">>
    [] command = "kiro:fdd-prototype" -> <<"prototype">>
    [] command = "kiro:fdd-test"      -> <<"user-test">>
    [] command = "kiro:fdd-implement" -> <<"implementation">>
    [] command = "kiro:fdd-integrate" -> <<"integration">>
    [] command = "kiro:fdd-full" ->
         <<"init", "ui-mockup">>
           \o (IF ~options.skipPrototype THEN <<"prototype">> ELSE <<>>)
           \o (IF options.enableUserTesting THEN <<"user-test">> ELSE <<>>)
           \o <<"implementation", "integration">>
    [] OTHER -> <<>>

\* the early return of createPrototypeTodos and createUserTestingTodos
phaseDisabled(step, options) ==
  \/ step = "prototype" /\ options.skipPrototype
  \/ step = "user-test" /\ ~options.enableUserTesting

\* the list a create...Todos function returns; disabled tells whether it took
\* its early return
createTodos(step, options, disabled) ==
  CASE step = "init"           -> initTodos(options)
    [] step = "ui-mockup"      -> mockupTodos(options)
    [] step = "prototype"      -> IF disabled THEN prototypeSkippedTodos(options)
                                  ELSE prototypeTodos(options)
    [] step = "user-test"      -> IF disabled THEN userTestingDisabledTodos(options)
                                  ELSE userTestingTodos(options)
    [] step = "implementation" -> implementationTodos(options)
    [] step = "integration"    -> integrationTodos(options)

\* GitCommitEnforcer.addGitCommitTodoIfNeeded: the list as it is, or with a
\* commit item appended when the enforcer finds one needed
addGitCommitTodoIfNeeded(todos, needed) ==
  IF needed THEN Append(todos, GitCommitTask) ELSE todos

\* the awaits of executeFDDPhase whose rejection a command is followed through
CommandFailPoints == {"executePhaseWork"}

NoCommandResult == [todos |-> <<>>, success |-> FALSE]

CommandStart ==
  /\ cmdPc = "idle"
  /\ cmdCommand = "none"
  /\ cmdOptions = [featureName |-> <<"l","o","g","i","n">>, uiFramework |-> Undefined,
                   enableUserTesting |-> FALSE, skipPrototype |-> FALSE]
  /\ cmdSteps = <<>>
  /\ cmdTodos = <<>>
  /\ cmdPhases = <<>>
  /\ cmdResult = NoCommandResult

\* processFDDCommand(command, args, options) up to its first await
ProcessFDDCommand ==
  /\ cmdPc = "idle"
  /\ \E command \in FDDCommands \cup UnknownCommands, options \in FDDCommandOptions :
       /\ cmdCommand' = command
       /\ cmdOptions' = options
       /\ cmdSteps' = commandSteps(command, options)
       /\ IF command \in FDDCommands
          THEN cmdPc' = "running" /\ cmdResult' = NoCommandResult
          ELSE \* default: throw, caught by the catch clause
               cmdPc' = "done" /\ cmdResult' = [todos |-> <<>>, success |-> FALSE]
  /\ UNCHANGED <<cmdTodos, cmdPhases>>
  /\ UNCHANGED <<storeVars, todoVars, wfVars, fddVars, projVars, msgVars, runVars>>

\* initializeFDDWorkflow(options): the workspace is written, or fs rejects
InitializeFDDWorkflow ==
  /\ cmdPc = "running"
  /\ cmdSteps # <<>>
  /\ Head(cmdSteps) = "init"
  /\ \E workspaceOk \in BOOLEAN :
       IF workspaceOk
       THEN /\ docs' = writeFile(docs, <<"fdd", cmdOptions.featureName, "FDD_WORKFLOW.md">>,
                                 [kind |-> "workflow", featureName |-> cmdOptions.featureName])
            /\ cmdTodos' = cmdTodos \o createTodos("init", cmdOptions, FALSE)
            /\ cmdSteps' = Tail(cmdSteps)
            /\ UNCHANGED <<cmdPc, cmdResult>>
       ELSE /\ cmdPc' = "done"
            /\ cmdResult' = [todos |-> <<>>, success |-> FALSE]
            /\ UNCHANGED <<docs, cmdTodos, cmdSteps>>
  /\ UNCHANGED <<cmdCommand, cmdOptions, cmdPhases>>
  /\ UNCHANGED <<now, todoVars, wfVars, fddVars, projVars, msgVars, runVars>>

\* one of createUIMockupTodos, createPrototypeTodos, createUserTestingTodos,
\* createImplementationTodos, createIntegrationTodos: the phase literal has no
\* nextPhase, and what executeFDDPhase returns is not read
CreatePhaseTodos ==
  /\ cmdPc = "running"
  /\ cmdSteps # <<>>
  /\ Head(cmdSteps) \in FDDPhaseNames
  /\ LET step == Head(cmdSteps)
         phase == [name |-> step, nextPhase |-> Undefined]
     IN  IF phaseDisabled(step, cmdOptions)
         THEN /\ cmdTodos' = cmdTodos \o createTodos(step, cmdOptions, TRUE)
              /\ cmdSteps' = Tail(cmdSteps)
              /\ UNCHANGED <<docs, cmdPc, cmdResult, cmdPhases>>
         ELSE \E failAt \in CommandFailPoints \cup {"none"}, errorWriteOk \in BOOLEAN :
                LET r == executeFDDPhase(docs, fddConfig, phase, cmdOptions.featureName,
                                         generateTimestamp, failAt, errorWriteOk)
                IN  /\ docs' = r.files
                    /\ cmdPhases' = Append(cmdPhases, [name |-> step, failAt |-> failAt,
                                                       threw |-> r.threw, success |-> r.success])
                    /\ IF r.threw
                       THEN /\ cmdPc' = "done"
                            /\ cmdResult' = [todos |-> <<>>, success |-> FALSE]
                            /\ UNCHANGED <<cmdTodos, cmdSteps>>
                       ELSE /\ cmdTodos' = cmdTodos \o createTodos(step, cmdOptions, FALSE)
                            /\ cmdSteps' = Tail(cmdSteps)
                            /\ UNCHANGED <<cmdPc, cmdResult>>
  /\ UNCHANGED <<cmdCommand, cmdOptions>>
  /\ UNCHANGED <<now, todoVars, wfVars, fddVars, projVars, msgVars, runVars>>

\* the end of processFDDCommand: the todo rules, then the enforcer's commit item
ReturnTodos ==
  /\ cmdPc = "running"
  /\ cmdSteps = <<>>
  /\ \E needed \in BOOLEAN :
       LET enhancedTodos == enhanceTodos(cmdTodos, TodoEnhancer(<<>>))
           finalTodos == addGitCommitTodoIfNeeded(enhancedTodos, needed)
       IN  cmdResult' = [todos |-> finalTodos, success |-> TRUE]
  /\ cmdPc' = "done"
  /\ UNCHANGED <<cmdCommand, cmdOptions, cmdSteps, cmdTodos, cmdPhases>>
  /\ UNCHANGED <<storeVars, todoVars, wfVars, fddVars, projVars, msgVars, runVars>>

(***************************************************************************)
(* FDD project state machine: FddWorkflowManager.                          *)
(***************************************************************************)
\* FddPhase['name'], in the order of the project's phases
FddPhaseOrder == <<"ui-design", "prototype", "component-design", "integration", "testing">>

\* the directory and the file prefix each phase's template is written with
templateDir ==
  ("ui-design" :> "ui-design") @@ ("prototype" :> "prototypes") @@
  ("component-design" :> "components") @@ ("integration" :> "integration") @@
  ("testing" :> "testing")

templatePrefix ==
  ("ui-design" :> "UI_Design_") @@ ("prototype" :> "Prototype_") @@
  ("component-design" :> "Component_Design_") @@ ("integration" :> "Integration_") @@
  ("testing" :> "Testing_")

\* docs/fdd/<feature>/<dir>/<Prefix><timestamp>_<feature>.md
templateFile(phase, featureName, timestamp) ==
  <<"docs", "fdd", featureName, templateDir[phase],
    <<templatePrefix[phase], timestamp, "_", featureName, ".md">> >>

\* no project has been returned to the caller; an unset path is <<>>
NoProject ==
  [name |-> <<>>, currentPhase |-> "none", prototypePath |-> <<>>, componentPath |-> <<>>]

\* the project literal of initializeFddWorkflow; its phases object is projPhases
initializeFddWorkflow(featureName) ==
  [name |-> featureName, currentPhase |-> "ui-design", prototypePath |-> <<>>,
   componentPath |-> <<>>]

\* executeFddPhase once the phase's template is written to file: the copy of
\* the project that is returned, and the phases object the copy shares with it
executeFddPhase(project, phases, phase, file) ==
  [project |-> [project EXCEPT
                  !.currentPhase = phase,
                  !.prototypePath = IF phase = "prototype" THEN file ELSE @,
                  !.componentPath = IF phase = "component-design" THEN file ELSE @],
   phases |-> [phases EXCEPT ![phase] = [completed |-> TRUE, artifacts |-> <<>>]]]

\* fs.readdir(docs/fdd/<feature>/<dir>): the names of the files of the directory
readPhaseDir(files, featureName, dir) ==
  {f.path[5] : f \in {g \in files : /\ Len(g.path) = 5
                                    /\ g.path[1] = "docs"
                                    /\ g.path[2] = "fdd"
                                    /\ g.path[3] = featureName
                                    /\ g.path[4] = dir}}

\* Math.round((completed / phases.length) * 100)
roundedPercent(completed, total) == (completed * 200 + total) \div (2 * total)

\* getFddStatus(featureName): the directories read are named after the phases;
\* a missing directory is skipped like an empty one
getFddStatus(files, featureName) ==
  LET phases == FddPhaseOrder
      completed == Cardinality({i \in 1..Len(phases) :
                                  readPhaseDir(files, featureName, phases[i]) # {}})
  IN  [currentPhase |-> IF completed + 1 \in 1..Len(phases) THEN phases[completed + 1]
                        ELSE "completed",
       completion |-> roundedPercent(completed, Len(phases))]

ProjectStart ==
  /\ projProject = NoProject
  /\ projPhases = [p \in Range(FddPhaseOrder) |-> [completed |-> FALSE, artifacts |-> <<>>]]
  /\ projTrace = <<>>
  /\ projOutcome = "none"

\* initializeFddWorkflow(featureName): the structure and the UI design template
\* are written and the project is returned, or fs rejects
InitializeFddWorkflow ==
  /\ projProject.currentPhase = "none"
  /\ \E featureName \in FeatureNames, written \in BOOLEAN :
       IF written
       THEN /\ docs' = writeFile(docs, uiDesignFile(featureName, generateTimestamp),
                                 [kind |-> "template", phase |-> "ui-design"])
            /\ projProject' = initializeFddWorkflow(featureName)
            /\ projOutcome' = "returned"
       ELSE /\ projOutcome' = "thrown"
            /\ UNCHANGED <<docs, projProject>>
  /\ UNCHANGED <<projPhases, projTrace>>
  /\ UNCHANGED <<now, todoVars, wfVars, fddVars, cmdVars, msgVars, runVars>>

\* executeFddPhase(featureName, phase, project) on the project the caller holds,
\* with any phase name; the caller keeps the project that is returned
ExecuteFddPhase ==
  /\ projProject.currentPhase # "none"
  /\ Len(projTrace) < MaxPhaseCalls
  /\ \E phase \in Range(FddPhaseOrder), written \in BOOLEAN :
       IF written
       THEN LET file == templateFile(phase, projProject.name, generateTimestamp)
                r == executeFddPhase(projProject, projPhases, phase, file)
            IN  /\ docs' = writeFile(docs, file, [kind |-> "template", phase |-> phase])
                /\ projProject' = r.project
                /\ projPhases' = r.phases
                /\ projTrace' = Append(projTrace, phase)
                /\ projOutcome' = "returned"
       ELSE \* the template write rejects before any flag is set
            /\ projOutcome' = "thrown"
            /\ UNCHANGED <<docs, projProject, projPhases, projTrace>>
  /\ UNCHANGED <<now, todoVars, wfVars, fddVars, cmdVars, msgVars, runVars>>

(***************************************************************************)
(* Message store: successive createInstruction / createReport calls and    *)
(* the listings read back from the docs directory.                         *)
(***************************************************************************)
\* the task texts of the successive calls
SentTasks == { <<"F","i","x"," ","l","o","g","i","n">>, <<"D","e","s","i","g","n">> }

SentInstructions ==
  { [from |-> pair[1], to |-> pair[2], task |-> task, priority |-> "high"] :
      pair \in {<<"claude", "gemini">>, <<"codex", "gemini">>, <<"claude", "codex">>},
      task \in SentTasks }

SentReports ==
  { [from |-> pair[1], to |-> pair[2], task |-> task, status |-> status] :
      pair \in {<<"gemini", "claude">>, <<"gemini", "codex">>, <<"codex", "claude">>},
      task \in {<<"F","i","x"," ","l","o","g","i","n">>},
      status \in {"completed", "blocked"} }

\* the characters of the strings that make up a file name
Chars ==
  [s \in Roles \cup {"completed", "in_progress", "blocked", "_to_", "_from_", "_", ".md"} |->
     CASE s = "claude" -> <<"c","l","a","u","d","e">>
       [] s = "gemini" -> <<"g","e","m","i","n","i">>
       [] s = "codex" -> <<"c","o","d","e","x">>
       [] s = "completed" -> <<"c","o","m","p","l","e","t","e","d">>
       [] s = "in_progress" -> <<"i","n","_","p","r","o","g","r","e","s","s">>
       [] s = "blocked" -> <<"b","l","o","c","k","e","d">>
       [] s = "_to_" -> <<"_","t","o","_">>
       [] s = "_from_" -> <<"_","f","r","o","m","_">>
       [] s = "_" -> <<"_">>
       [] s = ".md" -> <<".","m","d">>]

\* generateTimestamp as text: twelve digits (YYYYMMDDHHmm), the minute last
timestampChars(timestamp) == <<"2","0","2","5","0","1","0","1","0","0","0">> \o <<Digits[timestamp + 1]>>

\* the file name as the string the file system holds
fileNameChars(fileName) ==
  Chars[fileName[1]] \o Chars[fileName[2]] \o Chars[fileName[3]] \o Chars[fileName[4]]
    \o timestampChars(fileName[5]) \o Chars[fileName[6]] \o fileName[7] \o Chars[fileName[8]]

\* the characters of file names, in the order of their UTF-16 code units
CodeUnits == <<".","0","1","2","3","4","5","6","7","8","9","_","a","b","c","d","e","f","g","h","i","j","k","l","m","n","o","p","q","r","s","t","u","v","w","x","y","z">>
charCode(c) == CHOOSE n \in 1..Len(CodeUnits) : CodeUnits[n] = c

\* a < b as Array.prototype.sort compares strings by default
RECURSIVE lessThan(_, _)
lessThan(a, b) ==
  IF b = <<>> THEN FALSE
  ELSE IF a = <<>> THEN TRUE
  ELSE IF Head(a) = Head(b) THEN lessThan(Tail(a), Tail(b))
  ELSE charCode(Head(a)) < charCode(Head(b))

\* files.sort().reverse()
sortReverse(files) ==
  [i \in 1..Cardinality(files) |->
     CHOOSE f \in files :
       Cardinality({g \in files : lessThan(fileNameChars(f), fileNameChars(g))}) = i - 1]

\* a readdir that returns the files of every directory
readdirEverywhere(files, dir) == {f.path[4] : f \in files}

\* fs.readdir(dir): the names of the files of dir (it rejects when dir is missing)
readdir(files, dir) ==
  {f.path[4] : f \in {g \in files : Len(g.path) = 4 /\ SubSeq(g.path, 1, 3) = dir}}

\* InstructionManager.listInstructions(ai)
listInstructions(files, ai) ==
  LET names == readdir(files, <<"docs", "instructions", <<"To", capitalize(ai)>> >>)
  IN  IF names = {} THEN <<>>
      ELSE sortReverse({file \in names : file[Len(file)] = ".md"})

\* ReportManager.listReports(ai)
listReports(files, ai) ==
  LET names == readdir(files, <<"docs", "reports", <<"From", capitalize(ai)>> >>)
  IN  IF names = {} THEN <<>>
      ELSE sortReverse({file \in names : file[Len(file)] = ".md"})

NoListing == [kind |-> "none", ai |-> "none", files |-> <<>>]

StoreIdle ==
  /\ msgSent = {}
  /\ msgCount = 0
  /\ msgListing = NoListing

\* one more createInstruction(request) call: the document is written and the
\* path returned, or mkdir / writeFile rejects and nothing changes
SendInstruction ==
  /\ msgCount < MaxCalls
  /\ \E request \in SentInstructions, written \in BOOLEAN :
       LET timestamp == generateTimestamp
           path == instructionPath(request, timestamp)
       IN  IF written
           THEN /\ docs' = createInstruction(docs, request, timestamp)
                /\ msgSent' = msgSent \cup
                     {[kind |-> "instruction", from |-> request.from, to |-> request.to,
                       status |-> "none", timestamp |-> timestamp, task |-> request.task,
                       path |-> path]}
                /\ msgCount' = msgCount + 1
           ELSE UNCHANGED <<docs, msgSent, msgCount>>
  /\ UNCHANGED <<now, msgKind, msgRequest, msgDocument, msgOutcome, msgListing>>
  /\ UNCHANGED <<todoVars, wfVars, fddVars, cmdVars, projVars, runVars>>

\* one more createReport(data) call: the document is written and the path
\* returned, or mkdir / writeFile rejects and nothing changes
SendReport ==
  /\ msgCount < MaxCalls
  /\ \E data \in SentReports, written \in BOOLEAN :
       LET timestamp == generateTimestamp
           path == reportPath(data, timestamp)
       IN  IF written
           THEN /\ docs' = createReport(docs, data, timestamp)
                /\ msgSent' = msgSent \cup
                     {[kind |-> "report", from |-> data.from, to |-> data.to,
                       status |-> data.status, timestamp |-> timestamp, task |-> data.task,
                       path |-> path]}
                /\ msgCount' = msgCount + 1
           ELSE UNCHANGED <<docs, msgSent, msgCount>>
  /\ UNCHANGED <<now, msgKind, msgRequest, msgDocument, msgOutcome, msgListing>>
  /\ UNCHANGED <<todoVars, wfVars, fddVars, cmdVars, projVars, runVars>>

\* listInstructions(ai), read by a caller
ListInstructions ==
  /\ \E ai \in Roles :
       msgListing' = [kind |-> "instructions", ai |-> ai, files |-> listInstructions(docs, ai)]
  /\ UNCHANGED <<docs, now, msgKind, msgRequest, msgDocument, msgOutcome, msgSent, msgCount>>
  /\ UNCHANGED <<todoVars, wfVars, fddVars, cmdVars, projVars, runVars>>

\* listReports(ai), read by a caller
ListReports ==
  /\ \E ai \in Roles :
       msgListing' = [kind |-> "reports", ai |-> ai, files |-> listReports(docs, ai)]
  /\ UNCHANGED <<docs, now, msgKind, msgRequest, msgDocument, msgOutcome, msgSent, msgCount>>
  /\ UNCHANGED <<todoVars, wfVars, fddVars, cmdVars, projVars, runVars>>

(***************************************************************************)
(* Message builder calls: one createInstruction or createReport call.      *)
(***************************************************************************)
InstructionTextKeys == {"context", "deadline"}
InstructionListKeys == {"requirements", "acceptanceCriteria"}

ReportListKeys ==
  {"completedItems", "inProgressItems", "blockedItems", "changedFiles", "metrics",
   "learnings", "nextActions"}
ReportTextKeys == {"notes"}

\* the task texts callers pass
TaskTexts ==
  { <<>>, <<"D","e","s","i","g","n"," ","P","h","a","s","e","!","!">>, <<" "," ","F","i","x"," "," "," ","l","o","g","i","n","\t","b","u","g"," ">>, <<"a","_","b"," ","-"," ","c">>, <<"!","!","!">>,
    <<"u8A2D","u8A08","u3000","R","e","v","i","e","w"," ","2","\n">>,
    <<"I","m","p","l","e","m","e","n","t","a","t","i","o","n"," "," ","p","h","a","s","e","\t","f","o","r"," ","l","o","g","i","n","-","v","2","!">> }

\* an optional field as a caller supplies it: a text ('' or not) or a list
\* (empty or not); metrics is written as the list of its entries
fieldValue(key, empty) ==
  IF empty THEN <<>>
  ELSE IF key \in InstructionTextKeys \cup ReportTextKeys THEN <<"a","s"," ","a","g","r","e","e","d">>
  ELSE << <<"i","t","e","m">> >>

\* the optional fields of a request: each key left out, empty, or given
optionalFields(keys, modes) ==
  [k \in {key \in keys : modes[key] # "missing"} |-> fieldValue(k, modes[k] = "empty")]

InstructionRequests ==
  { [from |-> pair[1], to |-> pair[2], task |-> task, priority |-> "high"]
      @@ optionalFields(InstructionTextKeys \cup InstructionListKeys, modes) :
      pair \in {<<"claude", "gemini">>, <<"gemini", "codex">>},
      task \in TaskTexts,
      modes \in [InstructionTextKeys \cup InstructionListKeys -> {"missing", "empty", "given"}] }

\* reports: any subset of the optional fields given, or all of them empty
ReportModes ==
  {[k \in ReportListKeys \cup ReportTextKeys |-> IF k \in given THEN "given" ELSE "missing"] :
     given \in SUBSET (ReportListKeys \cup ReportTextKeys)}
    \cup {[k \in ReportListKeys \cup ReportTextKeys |-> "empty"]}

ReportRequests ==
  { [from |-> "gemini", to |-> "claude", task |-> task, status |-> status]
      @@ optionalFields(ReportListKeys \cup ReportTextKeys, modes) :
      task \in TaskTexts,
      status \in {"completed", "in_progress", "blocked"},
      modes \in ReportModes }

placeholderBody(placeholder) == << [mark |-> "placeholder", text |-> placeholder] >>

\* `${r[key] || placeholder}`
textOr(r, key, placeholder) ==
  IF key \in DOMAIN r /\ r[key] # <<>>
  THEN << [mark |-> "text", text |-> r[key]] >>
  ELSE placeholderBody(placeholder)

\* the list rendered with ?? in place of ||: an empty list gives an empty body
listOrNullish(r, key, mark, placeholder) ==
  IF key \in DOMAIN r
  THEN [i \in 1..Len(r[key]) |-> [mark |-> mark, text |-> r[key][i]]]
  ELSE placeholderBody(placeholder)

\* `${r[key]?.map(item => mark + item).join('\n') || placeholder}`: the joined
\* text is '' exactly when the list has no item
listOr(r, key, mark, placeholder) ==
  IF key \in DOMAIN r /\ r[key] # <<>>
  THEN [i \in 1..Len(r[key]) |-> [mark |-> mark, text |-> r[key][i]]]
  ELSE placeholderBody(placeholder)

\* ReportManager.formatMetrics
formatMetrics(r) ==
  IF "metrics" \notin DOMAIN r \/ Len(r["metrics"]) = 0
  THEN placeholderBody(<<"-"," ","u30E1","u30C8","u30EA","u30AF","u30B9","u60C5","u5831","u306A","u3057">>)
  ELSE [i \in 1..Len(r["metrics"]) |-> [mark |-> "- **key**: ", text |-> r["metrics"][i]]]

\* the sections of generateInstructionContent after the header, in order
instructionSections(request) ==
  << [title |-> "overview", body |-> textOr(request, "context", <<"u30BF","u30B9","u30AF","u306E","u8A73","u7D30","u8AAC","u660E">>)],
     [title |-> "requirements",
      body |-> listOr(request, "requirements", "n. ", <<"-"," ","u8981","u4EF6","u3092","u5177","u4F53","u7684","u306B","u8A18","u8F09">>)],
     [title |-> "acceptanceCriteria",
      body |-> listOr(request, "acceptanceCriteria", "n. ",
                      <<"1","."," ","u5B9F","u88C5","u5B8C","u4E86","\n","2","."," ","u30C6","u30B9","u30C8","u901A","u904E","\n","3","."," ","u54C1","u8CEA","u57FA","u6E96","u6E80","u8DB3">>)],
     [title |-> "schedule", body |-> textOr(request, "deadline", <<"u76F8","u8AC7">>)],
     [title |-> "nextSteps", body |-> << [mark |-> "fixed", text |-> <<"1","."," ","u5B9F","u88C5","u958B","u59CB">>] >>],
     [title |-> "references", body |-> << [mark |-> "fixed", text |-> <<"-"," ","u8981","u4EF6","u5B9A","u7FA9",":"," ",".","k","i","r","o","/","s","p","e","c","s","/">>] >>],
     [title |-> "remarks",
      body |-> << [mark |-> "fixed", text |-> <<"A","I","u5F79","u5272","u5206","u62C5","u30B7","u30B9","u30C6","u30E0","u306B","u3088","u308B","u81EA","u52D5","u751F","u6210","u6307","u793A","u66F8">>] >>] >>

\* the sections of generateReportContent after the header, in order
reportSections(data) ==
  << [title |-> "completed",
      body |-> listOr(data, "completedItems", "- [x] ", <<"-"," ","u5B8C","u4E86","u9805","u76EE","u306A","u3057">>)],
     [title |-> "inProgress",
      body |-> listOr(data, "inProgressItems", "- [ ] ", <<"-"," ","u9032","u884C","u4E2D","u9805","u76EE","u306A","u3057">>)],
     [title |-> "blocked",
      body |-> listOr(data, "blockedItems", "- ! ", <<"-"," ","u30D6","u30ED","u30C3","u30AF","u9805","u76EE","u306A","u3057">>)],
     [title |-> "changedFiles",
      body |-> listOr(data, "changedFiles", "- file ", <<"-"," ","u30D5","u30A1","u30A4","u30EB","u5909","u66F4","u306A","u3057">>)],
     [title |-> "metrics", body |-> formatMetrics(data)],
     [title |-> "learnings", body |-> listOr(data, "learnings", "- ", <<"-"," ","u7279","u8A18","u4E8B","u9805","u306A","u3057">>)],
     [title |-> "nextActions",
      body |-> listOr(data, "nextActions", "n. ", <<"1","."," ","u6B21","u306E","u6307","u793A","u5F85","u3061">>)],
     [title |-> "notes",
      body |-> textOr(data, "notes", <<"A","I","u5F79","u5272","u5206","u62C5","u30B7","u30B9","u30C6","u30E0","u306B","u3088","u308B","u81EA","u52D5","u751F","u6210","u5831","u544A","u66F8">>)] >>

NoRequest == [from |-> "none", to |-> "none", task |-> <<>>]
NoDocument == [title |-> <<>>, sections |-> <<>>]
NoPath == [kind |-> "none", path |-> <<>>]

BuilderStart ==
  /\ msgKind = "none"
  /\ msgRequest = NoRequest
  /\ msgDocument = NoDocument
  /\ msgOutcome = NoPath
  /\ StoreIdle

\* createInstruction(request): the path is returned, or mkdir / writeFile rejects
CreateInstruction ==
  /\ msgKind = "none"
  /\ \E request \in InstructionRequests, written \in BOOLEAN :
       LET timestamp == generateTimestamp
           path == instructionPath(request, timestamp)
       IN  /\ msgRequest' = request
           /\ IF written
              THEN /\ docs' = createInstruction(docs, request, timestamp)
                   /\ msgDocument' = [title |-> instructionTitle(request, timestamp),
                                      sections |-> instructionSections(request)]
                   /\ msgOutcome' = [kind |-> "returned", path |-> path]
              ELSE /\ msgOutcome' = [kind |-> "thrown", path |-> <<>>]
                   /\ UNCHANGED <<docs, msgDocument>>
  /\ msgKind' = "instruction"
  /\ UNCHANGED <<msgSent, msgCount, msgListing>>
  /\ UNCHANGED <<now, todoVars, wfVars, fddVars, cmdVars, projVars, runVars>>

\* createReport(data): the path is returned, or mkdir / writeFile rejects
CreateReport ==
  /\ msgKind = "none"
  /\ \E data \in ReportRequests, written \in BOOLEAN :
       LET timestamp == generateTimestamp
           path == reportPath(data, timestamp)
       IN  /\ msgRequest' = data
           /\ IF written
              THEN /\ docs' = createReport(docs, data, timestamp)
                   /\ msgDocument' = [title |-> reportTitle(data, timestamp),
                                      sections |-> reportSections(data)]
                   /\ msgOutcome' = [kind |-> "returned", path |-> path]
              ELSE /\ msgOutcome' = [kind |-> "thrown", path |-> <<>>]
                   /\ UNCHANGED <<docs, msgDocument>>
  /\ msgKind' = "report"
  /\ UNCHANGED <<msgSent, msgCount, msgListing>>
  /\ UNCHANGED <<now, todoVars, wfVars, fddVars, cmdVars, projVars, runVars>>

(***************************************************************************)
(* Specifications: one per component, the others parked.                   *)
(***************************************************************************)
WorkflowIdle ==
  /\ wfPc = "idle"
  /\ wfContext = [projectRoot |-> ".", currentPhase |-> "requirements",
                  featureName |-> <<"l","o","g","i","n">>, aiRole |-> "claude", enableFdd |-> FALSE]
  /\ wfResult = NoResult
  /\ wfCaught = NoError
  /\ wfGit = NoGit
  /\ wfOutcome = NoOutcome
  /\ wfLog = <<>>

TodoIdle ==
  /\ todoOptions = DefaultOptions
  /\ todoInput = <<>>
  /\ todoList = <<>>
  /\ todoPrev = <<>>
  /\ todoCalls = 0
  /\ todoValidation = NoValidation
  /\ todoArgument = <<>>
  /\ todoCli = NoCliOptions

FddIdle ==
  /\ fddConfig = DefaultFDDConfig
  /\ fddChain = <<>>
  /\ fddResult = NoPhaseResult

\* the manager a command integration builds: the caller's FDDConfig may set
\* enableUserTesting, and no chain is asked for
CommandManager ==
  /\ fddConfig \in {mergeConfig(DefaultFDDConfig, flags, Undefined) :
                      flags \in {<<>>} \cup [{"enableUserTesting"} -> {TRUE}]}
  /\ fddChain = <<>>
  /\ fddResult = NoPhaseResult

InitTodo == TodoStart /\ StoreStart /\ WorkflowIdle /\ FddIdle /\ CommandStart /\ ProjectStart
    /\ BuilderStart /\ RunsIdle

NextTodo == EnhanceTodos \/ ValidateTodos

SpecTodo == InitTodo /\ [][NextTodo]_vars

InitWorkflow == TodoIdle /\ StoreStart /\ WorkflowStart /\ FddIdle /\ CommandStart /\ ProjectStart
    /\ BuilderStart /\ RunsIdle

NextWorkflow ==
  \/ Tick
  \/ EnhanceSpecWorkflow
  \/ PreCreateInstruction
  \/ PreInitializeFdd
  \/ OriginalWorkflow
  \/ PostCreateReport
  \/ CaptureLearningInsights
  \/ AutoGitCommit
  \/ HandleWorkflowError

SpecWorkflow == InitWorkflow /\ [][NextWorkflow]_vars

InitChain == TodoIdle /\ StoreStart /\ WorkflowIdle /\ FddStart /\ CommandStart /\ ProjectStart
    /\ BuilderStart /\ RunsIdle

NextChain == Tick \/ UpdateConfig \/ GenerateFDDWorkflow \/ ExecuteFDDPhase

SpecChain == InitChain /\ [][NextChain]_vars

InitCommand == TodoIdle /\ StoreStart /\ WorkflowIdle /\ CommandManager /\ CommandStart /\ ProjectStart
    /\ BuilderStart /\ RunsIdle

NextCommand == ProcessFDDCommand \/ InitializeFDDWorkflow \/ CreatePhaseTodos \/ ReturnTodos

SpecCommand == InitCommand /\ [][NextCommand]_vars

InitProject ==
  TodoIdle /\ StoreStart /\ WorkflowIdle /\ FddIdle /\ CommandStart /\ ProjectStart
    /\ BuilderStart /\ RunsIdle

NextProject == Tick \/ InitializeFddWorkflow \/ ExecuteFddPhase

SpecProject == InitProject /\ [][NextProject]_vars

InitBuilder ==
  TodoIdle /\ StoreStart /\ WorkflowIdle /\ FddIdle /\ CommandStart /\ ProjectStart
    /\ BuilderStart /\ RunsIdle

NextBuilder == CreateInstruction \/ CreateReport

SpecBuilder == InitBuilder /\ [][NextBuilder]_vars

InitTodoList ==
  TodoListStart /\ StoreStart /\ WorkflowIdle /\ FddIdle /\ CommandStart /\ ProjectStart
    /\ BuilderStart /\ RunsIdle

SpecTodoList == InitTodoList /\ [][EnhanceTodoList]_vars

InitRuns ==
  TodoIdle /\ StoreStart /\ WorkflowIdle /\ FddIdle /\ CommandStart /\ ProjectStart
    /\ BuilderStart /\ RunsStart

NextRuns == Tick \/ RunCreateInstruction \/ RunCreateReport \/ RunPrepareNextPhase

SpecRuns == InitRuns /\ [][NextRuns]_vars

NextStore == Tick \/ SendInstruction \/ SendReport \/ ListInstructions \/ ListReports

SpecStore == InitBuilder /\ [][NextStore]_vars

(***************************************************************************)
(* Claims on the todo rule engine.                                         *)
(***************************************************************************)
\* C1: with the default options, enhanceTodos applied to an already enhanced
\* list returns that list unchanged (no further item is added).
C1_EnhanceIdempotent ==
  (todoCalls = 2 /\ todoOptions = DefaultOptions) => todoList = todoPrev

\* C2: validateTodos on the result of enhanceTodos (same options) reports
\* valid = true and an empty violations list.
C2_ValidateAfterEnhance ==
  (todoCalls >= 1 /\ todoValidation.checked) =>
     (todoValidation.valid /\ todoValidation.violations = <<>>)

(***************************************************************************)
(* Claims on the workflow orchestrator.                                    *)
(***************************************************************************)
\* a blocked report naming the message of error is on disk
blockedReportOnDisk(error) ==
  \E f \in docs :
     /\ f.content.kind = "report"
     /\ f.content.status = "blocked"
     /\ \E i \in 1..Len(f.content.blockedItems) :
           error.message \in Range(f.content.blockedItems[i])

anyBlockedReportOnDisk ==
  \E f \in docs : f.content.kind = "report" /\ f.content.status = "blocked"

\* C3: when work() fails with error E, enhanceSpecWorkflow raises exactly E to
\* its caller, also when the blocked-report write fails.
C3_WorkErrorReachesCaller ==
  (wfPc = "done" /\ wfCaught = WorkError) => wfOutcome = Thrown(WorkError)

\* C4 as stated: whenever a step of the run fails, a blocked report holding the
\* error's message is on disk when the orchestrator raises.
C4_BlockedReportPersisted ==
  (wfPc = "done" /\ wfOutcome.kind = "thrown") => blockedReportOnDisk(wfCaught)

\* C4 amended: whenever a step of the run fails with an error object, the write
\* of a blocked report is attempted before the orchestrator raises, and the
\* report, holding the error's message, is on disk whenever that write succeeds.
C4_BlockedReportAttempted ==
  (wfPc = "done" /\ wfOutcome.kind = "thrown" /\ wfCaught # UndefinedRejection) =>
     /\ wfLog # <<>>
     /\ wfLog[Len(wfLog)] \in {"blocked report", "blocked report failed"}
     /\ wfLog[Len(wfLog)] = "blocked report" =>
           (blockedReportOnDisk(wfCaught) /\ wfOutcome = Thrown(wfCaught))

\* a pre-phase failure whose blocked report reached the disk
C4_Witness ==
  /\ wfPc = "done"
  /\ wfOutcome.kind = "thrown"
  /\ wfCaught = IoError("EACCES: createInstruction")
  /\ blockedReportOnDisk(wfCaught)

\* C5: a failure of git add or git commit in autoGitCommit is not fatal: the
\* run returns the result of work() unchanged, raises nothing and leaves no
\* blocked report.
C5_CommitFailureNonFatal ==
  (wfPc = "done" /\ wfGit.attempted /\ (wfGit.addFailed # {} \/ ~wfGit.committed)) =>
     /\ wfOutcome = Returned(wfResult)
     /\ wfResult \in WorkResults
     /\ ~anyBlockedReportOnDisk

\* a run whose staging and commit both failed after the report was written
C5_Witness ==
  /\ wfPc = "done"
  /\ wfGit.attempted
  /\ wfGit.addFailed # {}
  /\ ~wfGit.committed
  /\ "report" \in Range(wfLog)
  /\ wfOutcome.kind = "returned"

(***************************************************************************)
(* Claims on the FDD phase chain.                                          *)
(***************************************************************************)
chainNames(chain) == [i \in 1..Len(chain) |-> chain[i].name]

\* the nextPhase of the phase called name in a chain, Undefined when it has none
successorOf(chain, name) ==
  LET at == {i \in 1..Len(chain) : chain[i].name = name}
  IN  IF at = {} THEN Undefined ELSE chain[CHOOSE i \in at : TRUE].nextPhase

chainReturned == fddChain' # fddChain

\* C7: every chain generateFDDWorkflow returns is ui-mockup, prototype,
\* implementation, integration when enableUserTesting is off, and the same with
\* user-test between prototype and implementation when it is on, whatever the
\* other settings are; the phase integration never has a nextPhase.
C7_ChainExact ==
  [][chainReturned =>
       /\ chainNames(fddChain') =
            IF fddConfig.enableUserTesting
            THEN <<"ui-mockup", "prototype", "user-test", "implementation", "integration">>
            ELSE <<"ui-mockup", "prototype", "implementation", "integration">>
       /\ successorOf(fddChain', "integration") = Undefined]_vars

\* the five-phase chain, held while every setting differs from its default
C7_Witness ==
  /\ Len(fddChain) = 5
  /\ fddConfig.enableUserTesting
  /\ ~fddConfig.enableMockups
  /\ ~fddConfig.enablePrototyping
  /\ fddConfig.uiFramework = "vue"

\* C8: every chain generateFDDWorkflow returns, under any configuration
\* updateConfig can reach, names no phase twice, has exactly one phase without
\* nextPhase, the last one, and links every other phase to the one after it.
C8_ChainWellFormed ==
  [][chainReturned =>
       LET chain == fddChain'
           n == Len(chain)
       IN  /\ n > 0
           /\ \A i, j \in 1..n : chain[i].name = chain[j].name => i = j
           /\ {i \in 1..n : chain[i].nextPhase = Undefined} = {n}
           /\ \A i \in 1..(n - 1) : chain[i].nextPhase = chain[i + 1].name]_vars

\* a chain returned after updateConfig switched user testing on, then run to
\* its user-test phase
C8_Witness ==
  /\ fddConfig.enableUserTesting
  /\ fddConfig # mergeConfig(DefaultFDDConfig, [k \in {"enableUserTesting"} |-> TRUE], Undefined)
  /\ Len(fddChain) = 5
  /\ fddResult.phase = "user-test"
  /\ fddResult.success

(***************************************************************************)
(* Claims on the FDD commands.                                             *)
(***************************************************************************)
\* the number of items of todos equal to item
occurrences(todos, item) == Cardinality({i \in 1..Len(todos) : todos[i] = item})

\* the todos of a phase are all in the list the command returned
returnedWithTodosOf(step) ==
  /\ cmdResult.success
  /\ \A item \in Range(createTodos(step, cmdOptions, FALSE)) :
        occurrences(cmdResult.todos, item) > 0

\* C6: when the work of a phase fails during a command, processFDDCommand
\* does not return success = true together with the todos of that phase.
C6_WorkFailureObserved ==
  cmdPc = "done" =>
    \A i \in 1..Len(cmdPhases) :
      cmdPhases[i].failAt = "executePhaseWork" => ~returnedWithTodosOf(cmdPhases[i].name)

\* C10: the list a full-workflow command returns holds exactly one skipped
\* record for the prototype phase when skipPrototype is set, and exactly one
\* disabled record for user testing when enableUserTesting is not set.
C10_DisabledPhaseRecorded ==
  (cmdPc = "done" /\ cmdCommand = "kiro:fdd-full" /\ cmdResult.success) =>
    /\ cmdOptions.skipPrototype =>
         occurrences(cmdResult.todos, prototypeSkippedTodos(cmdOptions)[1]) = 1
    /\ ~cmdOptions.enableUserTesting =>
         occurrences(cmdResult.todos, userTestingDisabledTodos(cmdOptions)[1]) = 1

(***************************************************************************)
(* Claims on the FDD project state machine.                                *)
(***************************************************************************)
\* the place of a phase in the order of the project's phases
phaseIndex(phase) == CHOOSE i \in 1..Len(FddPhaseOrder) : FddPhaseOrder[i] = phase

\* C9: a project starts at ui-design, and over the executeFddPhase calls made
\* on it currentPhase never moves to an earlier phase of the order and no
\* phase is executed twice.
C9_StrictlyForward ==
  projProject.currentPhase # "none" =>
    /\ projTrace = <<>> => projProject.currentPhase = FddPhaseOrder[1]
    /\ projTrace # <<>> => projProject.currentPhase = projTrace[Len(projTrace)]
    /\ \A i \in 1..(Len(projTrace) - 1) :
          phaseIndex(projTrace[i]) < phaseIndex(projTrace[i + 1])

\* the phases the command made executeFDDPhase calls for, in call order
executedPhases == [i \in 1..Len(cmdPhases) |-> cmdPhases[i].name]

\* C11: a full-workflow command that returns success has executed exactly the
\* phases of the chain generateFDDWorkflow builds from the manager's
\* configuration, each once and in chain order.
C11_FullWorkflowFollowsChain ==
  (cmdPc = "done" /\ cmdCommand = "kiro:fdd-full" /\ cmdResult.success) =>
    executedPhases = chainNames(generateFDDWorkflow(fddConfig, cmdOptions.featureName))

(***************************************************************************)
(* Further claims on the todo rule engine.                                 *)
(***************************************************************************)
\* the list passed to the latest enhanceTodos call holds the item
\* "Create instruction doc" and no item containing "commit"
commitRulePrecondition ==
  /\ todoCalls >= 1
  /\ \E i \in 1..Len(todoPrev) : todoPrev[i].content = <<"C","r","e","a","t","e"," ","i","n","s","t","r","u","c","t","i","o","n"," ","d","o","c">>
  /\ ~someTodoIncludes(todoPrev, { <<"c","o","m","m","i","t">> })

workKeywordPassed ==
  /\ todoCalls >= 1
  /\ todoOptions.autoLearningCapture
  /\ someTodoIncludes(todoPrev, learningTriggers)

\* the result holds the learning item exactly once, immediately before its
\* first item containing "git commit", or last when it has none, and the
\* other items are the input, followed by at most the commit item
learningItemPlaced ==
  LET n == Len(todoList)
      at == {i \in 1..n : todoList[i] = LearningTask}
      commits == {i \in 1..n : someTodoIncludes(<<todoList[i]>>, { <<"g","i","t"," ","c","o","m","m","i","t">> })}
  IN  /\ Cardinality(at) = 1
      /\ LET k == CHOOSE i \in at : TRUE
             rest == SubSeq(todoList, 1, k - 1) \o SubSeq(todoList, k + 1, n)
         IN  /\ IF commits = {} THEN k = n
                ELSE k + 1 \in commits /\ \A i \in commits : i > k
             /\ rest \in {todoPrev, Append(todoPrev, GitCommitTask)}

\* C13 as stated: the rule fires whenever a work keyword is present and no
\* item contains "learning", and then the learning item is placed as described.
C13_LearningPlacedNoLearning ==
  (workKeywordPassed /\ ~someTodoIncludes(todoPrev, { <<"l","e","a","r","n","i","n","g">> })) =>
    learningItemPlaced

\* C13 amended: the rule fires when a work keyword is present and no item
\* contains "learning" or its Japanese form, and then the learning item is
\* placed immediately before the first "git commit" item, or last.
C13_LearningPlaced ==
  (workKeywordPassed /\ ~someTodoIncludes(todoPrev, { <<"l","e","a","r","n","i","n","g">>, <<"u5B66","u7FD2">> })) =>
    learningItemPlaced

\* the spec's example: implement, commit gives implement, learning, commit
C13_Witness ==
  /\ todoCalls = 1
  /\ todoOptions.autoLearningCapture
  /\ Len(todoPrev) = 2
  /\ todoPrev[1].content = <<"I","m","p","l","e","m","e","n","t"," ","f","e","a","t","u","r","e"," ","X">>
  /\ todoPrev[2] = GitCommitTask
  /\ todoList = <<todoPrev[1], LearningTask, GitCommitTask>>

\* the items of a occur in b in the same order: b is a with items inserted
RECURSIVE isSubsequence(_, _)
isSubsequence(a, b) ==
  IF a = <<>> THEN TRUE
  ELSE IF b = <<>> THEN FALSE
  ELSE IF Head(a) = Head(b) THEN isSubsequence(Tail(a), Tail(b))
  ELSE isSubsequence(a, Tail(b))

\* C14: under every option setting enhanceTodos returns a list at least as
\* long as the one it was given, in which the given items occur unchanged and
\* in their original order.
C14_EnhanceOnlyAdds ==
  todoCalls >= 1 =>
    /\ Len(todoList) >= Len(todoPrev)
    /\ isSubsequence(todoPrev, todoList)

\* an item inserted in front of an item of the input, with the commit rule off
C14_Witness ==
  /\ todoCalls = 1
  /\ ~todoOptions.enforceGitCommit
  /\ Len(todoPrev) = 2
  /\ todoPrev[1].content = <<"O","p","t","i","m","i","z","e"," ","q","u","e","r","i","e","s">>
  /\ Len(todoList) = 3
  /\ todoList[2] = LearningTask
  /\ todoList[3] = todoPrev[2]

\* a violation message is among those validateTodos returned
reported(violation) ==
  \E i \in 1..Len(todoValidation.violations) : todoValidation.violations[i] = violation

\* C15: validateTodos reports the violation of an enabled rule for every list
\* in which a keyword that makes enhanceTodos apply the rule is present and
\* the rule's item is absent, and reports none for a rule whose keywords are
\* absent.
C15_ValidateCoversTriggers ==
  todoValidation.checked =>
    LET commitTrigger == someTodoIncludes(todoList, documentKeywords)
        commitItem == someTodoIncludes(todoList, { <<"c","o","m","m","i","t">> })
        learningTrigger == someTodoIncludes(todoList, learningTriggers)
        learningItem == someTodoIncludes(todoList, { <<"l","e","a","r","n","i","n","g">>, <<"u5B66","u7FD2">> })
    IN  /\ (todoOptions.enforceGitCommit /\ todoOptions.detectDocumentCreation
              /\ commitTrigger /\ ~commitItem)
             => reported("Document creation tasks must include git commit task")
        /\ (todoOptions.autoLearningCapture /\ learningTrigger /\ ~learningItem)
             => reported("Significant work should include learning capture task")
        /\ ~commitTrigger
             => ~reported("Document creation tasks must include git commit task")
        /\ ~learningTrigger
             => ~reported("Significant work should include learning capture task")

\* C16: after enhanceTodos and after validateTodos the array the caller passed
\* holds the same items in the same order as when it was passed, whether or
\* not the returned list gained a rule item.
C16_CallerListUntouched ==
  /\ (todoCalls >= 1 /\ ~todoValidation.checked) => todoArgument = todoPrev
  /\ todoValidation.checked => todoArgument = todoList

\* a call that returned two rule items more than it was given
C16_Witness ==
  /\ todoCalls = 1
  /\ ~todoValidation.checked
  /\ Len(todoPrev) = 2
  /\ Len(todoList) = 4
  /\ todoArgument = todoPrev

(***************************************************************************)
(* Further claims on the workflow orchestrator.                            *)
(***************************************************************************)
\* C17: a run of enhanceSpecWorkflow whose context names a phase outside the
\* known set never invokes the work and ends by throwing to the caller.
C17_UnknownPhaseRaised ==
  wfContext.currentPhase \in UnknownPhases =>
    /\ \A i \in 1..Len(wfLog) : wfLog[i] # "work"
    /\ wfPc = "done" => wfOutcome.kind = "thrown"


(***************************************************************************)
(* Claims on the message builder.                                          *)
(***************************************************************************)
\* C18: a createInstruction or createReport call whose task is empty fails
\* (the caller observes a throw) and no document is persisted for it.
C18_EmptyTaskRejected ==
  (msgKind # "none" /\ msgRequest.task = <<>>) =>
    /\ msgOutcome.kind = "thrown"
    /\ docs = {}


\* the section titles every instruction and every report carries, in order
InstructionSectionTitles ==
  <<"overview", "requirements", "acceptanceCriteria", "schedule", "nextSteps",
    "references", "remarks">>
ReportSectionTitles ==
  <<"completed", "inProgress", "blocked", "changedFiles", "metrics", "learnings",
    "nextActions", "notes">>

\* the optional field a section renders ("" for a section without one)
sectionField(title) ==
  CASE title = "overview" -> "context"
    [] title = "requirements" -> "requirements"
    [] title = "acceptanceCriteria" -> "acceptanceCriteria"
    [] title = "schedule" -> "deadline"
    [] title = "completed" -> "completedItems"
    [] title = "inProgress" -> "inProgressItems"
    [] title = "blocked" -> "blockedItems"
    [] title = "changedFiles" -> "changedFiles"
    [] title = "metrics" -> "metrics"
    [] title = "learnings" -> "learnings"
    [] title = "nextActions" -> "nextActions"
    [] title = "notes" -> "notes"
    [] OTHER -> ""

\* C19: every generated instruction and report has the fixed sequence of
\* sections whatever optional fields were supplied; no section is empty, and
\* a section whose optional field is missing or empty is exactly one line of
\* placeholder text.
C19_FixedSections ==
  msgOutcome.kind = "returned" =>
    LET sections == msgDocument.sections
    IN  /\ [i \in 1..Len(sections) |-> sections[i].title]
             = (IF msgKind = "instruction" THEN InstructionSectionTitles
                ELSE ReportSectionTitles)
        /\ \A i \in 1..Len(sections) :
             /\ sections[i].body # <<>>
             /\ \A j \in 1..Len(sections[i].body) : sections[i].body[j].text # <<>>
             /\ LET field == sectionField(sections[i].title)
                IN  (field # "" /\ (field \notin DOMAIN msgRequest \/ msgRequest[field] = <<>>))
                      => /\ Len(sections[i].body) = 1
                         /\ sections[i].body[1].mark = "placeholder"

\* an instruction with a context, an empty requirements list and no
\* acceptance criteria: the first section shows the context, the next two
\* their placeholders
C19_Witness ==
  /\ msgKind = "instruction"
  /\ msgOutcome.kind = "returned"
  /\ "context" \in DOMAIN msgRequest /\ msgRequest["context"] # <<>>
  /\ "requirements" \in DOMAIN msgRequest /\ msgRequest["requirements"] = <<>>
  /\ "acceptanceCriteria" \notin DOMAIN msgRequest
  /\ msgDocument.sections[1].body = << [mark |-> "text", text |-> msgRequest["context"]] >>
  /\ msgDocument.sections[2].body[1].mark = "placeholder"
  /\ msgDocument.sections[3].body[1].mark = "placeholder"


\* the slug part of a file name or title line
slugOf(fileName) == fileName[7]

\* C20: the slug derived from a task text is a function of the text alone,
\* contains only lower-case letters, digits and "_", has no two adjacent "_",
\* and is at most 30 characters long; the instruction builder and the report
\* builder derive the same slug from the same task.
C20_SlugSafe ==
  msgOutcome.kind = "returned" =>
    LET slug == slugOf(msgOutcome.path[4])
    IN  /\ \A i \in 1..Len(slug) :
             slug[i] \in Range(LowerCaseLetters) \cup Range(Digits) \cup {"_"}
        /\ \A i \in 1..(Len(slug) - 1) : ~(slug[i] = "_" /\ slug[i + 1] = "_")
        /\ Len(slug) <= 30
        /\ slug = sanitizeTaskName(msgRequest.task)
        /\ slug = reportSanitizeTaskName(msgRequest.task)
        /\ slugOf(msgDocument.title) = slug

\* a report on a task with capitals, punctuation, runs of whitespace and more
\* than 30 characters: the slug is cut after "login"
C20_Witness ==
  /\ msgKind = "report"
  /\ msgOutcome.kind = "returned"
  /\ msgRequest.task = <<"I","m","p","l","e","m","e","n","t","a","t","i","o","n"," "," ","p","h","a","s","e","\t","f","o","r"," ","l","o","g","i","n","-","v","2","!">>
  /\ slugOf(msgOutcome.path[4]) = <<"i","m","p","l","e","m","e","n","t","a","t","i","o","n","_","p","h","a","s","e","_","f","o","r","_","l","o","g","i","n">>


(***************************************************************************)
(* Claims on the message store.                                            *)
(***************************************************************************)
\* the slug of a call that returned
slugSent(m) == slugOf(m.path[4])

\* C21: two messages of the same kind that differ in from, to, timestamp or
\* slug are persisted under different paths.
C21_KeyDeterminesPath ==
  \A a \in msgSent, b \in msgSent :
    (/\ a.kind = b.kind
     /\ \/ a.from # b.from
        \/ a.to # b.to
        \/ a.timestamp # b.timestamp
        \/ slugSent(a) # slugSent(b))
      => a.path # b.path


\* C22: every createInstruction / createReport call that returned keeps its
\* own document: there are as many documents as calls that returned, so no
\* call replaced the document of an earlier one.
C22_NeverDeduplicated ==
  Cardinality(docs) = msgCount


\* the file names of the persisted documents of a kind whose role field is ai
persistedNames(kind, field, ai) ==
  {f.path[4] : f \in {g \in docs : g.content.kind = kind /\ g.content[field] = ai}}

\* a listing holds exactly the names of a set, each once
listsExactly(listing, names) ==
  /\ {listing[i] : i \in 1..Len(listing)} = names
  /\ Len(listing) = Cardinality(names)

\* C23: whenever a caller reads a listing, listInstructions(X) is exactly the
\* persisted instructions addressed to X and listReports(Y) exactly the
\* persisted reports sent from Y; a role with no document lists as empty.
C23_ListingExact ==
  [][(msgListing' # msgListing) =>
       /\ msgListing'.kind = "instructions" =>
            listsExactly(msgListing'.files, persistedNames("instruction", "to", msgListing'.ai))
       /\ msgListing'.kind = "reports" =>
            listsExactly(msgListing'.files, persistedNames("report", "from", msgListing'.ai))]_vars

\* one instruction to gemini is listed while an instruction to codex is on
\* disk too and is not part of the listing
C23_Witness ==
  /\ msgListing.kind = "instructions"
  /\ msgListing.ai = "gemini"
  /\ Len(msgListing.files) = 1
  /\ Cardinality(docs) = 2
  /\ \E f \in docs : f.content.kind = "instruction" /\ f.content.to = "codex"


\* the timestamp embedded in a file name
timestampOf(fileName) == fileName[5]

\* C26: a listing is latest first: the timestamps embedded in its file names
\* never increase along the list.
C26_LatestFirst ==
  \A i \in 1..Len(msgListing.files), j \in 1..Len(msgListing.files) :
    i < j => timestampOf(msgListing.files[i]) >= timestampOf(msgListing.files[j])


(***************************************************************************)
(* The order of the orchestrator's steps.                                  *)
(***************************************************************************)
\* the places of a step in the log of the run
stepsOf(step) == {i \in 1..Len(wfLog) : wfLog[i] = step}

\* every occurrence of step a is before every occurrence of step b
precedes(a, b) == \A i \in stepsOf(a), j \in stepsOf(b) : i < j

\* C24: in every run the steps occur in a fixed order: the phase instruction
\* is persisted before work() is invoked (and is there whenever the work of a
\* known phase is invoked), work() is invoked at most once, the completed
\* report, the retrospective record (only for a result with insights) and the
\* commit happen only after work() returned a result, in that order, and a
\* run that returns gives the caller exactly the value work() returned.
C24_StepOrder ==
  /\ precedes("instruction", "work")
  /\ (wfContext.currentPhase \in Phases /\ stepsOf("work") # {}) => stepsOf("instruction") # {}
  /\ Cardinality(stepsOf("work")) <= 1
  /\ \A step \in {"report", "learning", "commit"} :
       /\ precedes("work", step)
       /\ stepsOf(step) # {} => (stepsOf("work") # {} /\ wfResult \in WorkResults)
  /\ precedes("report", "learning")
  /\ precedes("report", "commit")
  /\ precedes("learning", "commit")
  /\ stepsOf("learning") # {} => wfResult.insights
  /\ wfOutcome.kind = "returned" =>
       /\ stepsOf("work") # {}
       /\ wfResult \in WorkResults
       /\ wfOutcome.value = wfResult

\* a finished run that went through every step and returned a result with
\* insights
C24_Witness ==
  /\ wfPc = "done"
  /\ wfLog = <<"instruction", "work", "report", "learning", "commit">>
  /\ wfResult.insights
  /\ wfOutcome.kind = "returned"
  /\ wfOutcome.value = wfResult


(***************************************************************************)
(* Claims on the exported todo functions.                                  *)
(***************************************************************************)
\* the list passed to the latest call triggers the retrospective rule: a work
\* keyword and no learning item
learningTriggered ==
  /\ someTodoIncludes(todoPrev, learningTriggers)
  /\ ~someTodoIncludes(todoPrev, { <<"l","e","a","r","n","i","n","g">>, <<"u5B66","u7FD2">> })

\* the list passed to the latest call triggers the commit rule: a document
\* keyword and no commit item
commitTriggered ==
  /\ someTodoIncludes(todoPrev, documentKeywords)
  /\ ~someTodoIncludes(todoPrev, { <<"c","o","m","m","i","t">> })

\* C25: each rule is switched on its own by the options passed to
\* enhanceTodoList: with the commit rule off and the retrospective rule on, a
\* list that triggers the retrospective rule gets the learning item; with the
\* retrospective rule off and the commit rule on, a list that triggers the
\* commit rule gets the commit item and nothing else.
C25_RulesIndependent ==
  todoCalls >= 1 =>
    /\ (/\ todoCli.enableGitCommitRule = "false"
        /\ todoCli.autoLearningCapture = "true"
        /\ learningTriggered)
         => \E i \in 1..Len(todoList) : todoList[i] = LearningTask
    /\ (/\ todoCli.enableGitCommitRule = "true"
        /\ todoCli.autoLearningCapture = "false"
        /\ commitTriggered)
         => /\ todoList[Len(todoList)] = GitCommitTask
            /\ Len(todoList) = Len(todoPrev) + 1


(***************************************************************************)
(* Claims on phase runs side by side.                                      *)
(***************************************************************************)
\* C27: two phase runs for different feature names never write the same
\* document, however their steps interleave and even within one minute.
C27_FeaturesNeverCollide ==
  runs # <<>> =>
    (runs[1].context.featureName # runs[2].context.featureName
       => runs[1].written \cap runs[2].written = {})


(***************************************************************************)
(* Claims on the reports of one orchestrator run.                          *)
(***************************************************************************)
\* a report of the given status is on disk
reportOnDisk(status) ==
  \E f \in docs : f.content.kind = "report" /\ f.content.status = status

\* C28: a finished run never leaves both a completed and a blocked report: a
\* run that raised left no completed report, a run that returned left no
\* blocked report.
C28_OneReportPerRun ==
  wfPc = "done" =>
    /\ wfOutcome.kind = "thrown" => ~reportOnDisk("completed")
    /\ wfOutcome.kind = "returned" => ~reportOnDisk("blocked")


\* C29: executeFddPhase leaves the project passed in unchanged: across a call
\* that returns, the phases object the input project refers to (every phase's
\* completed flag and artifacts) is the same after the call as before; the
\* input's currentPhase is never written, only the returned copy's is
C29_InputProjectUntouched ==
  [][(projTrace' # projTrace) => (projPhases' = projPhases)]_vars

\* the phases of FddPhaseOrder executed so far, when they are a prefix of it
executedPrefix ==
  /\ Len(projTrace) \in 1..Len(FddPhaseOrder)
  /\ projTrace = SubSeq(FddPhaseOrder, 1, Len(projTrace))

\* what the status should be after n of the phases were executed
expectedStatus(n) ==
  [currentPhase |-> IF n < Len(FddPhaseOrder) THEN FddPhaseOrder[n + 1] ELSE "completed",
   completion |-> (n * 100) \div Len(FddPhaseOrder)]

\* C30: after initializeFddWorkflow and successful executeFddPhase calls for a
\* prefix of the phases (ui-design first), getFddStatus reports the first phase
\* not yet executed as currentPhase and the percentage of executed phases as
\* completion
C30_StatusReflectsExecuted ==
  executedPrefix => getFddStatus(docs, projProject.name) = expectedStatus(Len(projTrace))

=============================================================================
